---- MODULE Spec2Model ----
(***************************************************************************)
(* AgentOrchestra: the build-review-decide workflow (multi_agent/graph.py)  *)
(* run on checkpointed threads, and the CLI driver (multi_agent/cli.py)     *)
(* that starts, resumes, watches and cancels runs.                          *)
(*                                                                          *)
(* A run is a thread of the compiled graph, keyed by its task id.  Its      *)
(* checkpoint holds the accumulated state values and the engine position    *)
(* (the node the thread is suspended in, or END).  Python dicts are         *)
(* modelled as records; None is the string "None" for string fields and     *)
(* the record NoneVal for dict fields.                                      *)
(***************************************************************************)
EXTENDS Integers, Sequences, FiniteSets, TLC

\* ---- bounds of the model ------------------------------------------------
MaxTime == 3
MaxBudget == 1
MaxGo == 2
MaxResume == 4

\* ---- inputs -------------------------------------------------------------
TaskIds == {"task-a"}
\* the ids of the sub-tasks of a decomposition, and the run id
\* generate_sub_task_id derives from the parent id and the sub-task id
\* (distinct pairs are taken to hash to distinct ids)
SubIds == {"a", "b", "c", "d"}
generate_sub_task_id(parent_task_id, sub_id) ==
  CASE sub_id = "a" -> "task-a.a"
    [] sub_id = "b" -> "task-a.b"
    [] sub_id = "c" -> "task-a.c"
    [] OTHER -> "task-a.d"
SubRunIds == {generate_sub_task_id("task-a", s) : s \in SubIds}
\* every thread id the checkpoint store is used with
RunIds == TaskIds \cup {"task-b"} \cup SubRunIds
Roles == {"builder", "reviewer"}
None == "None"
NoneVal == [none |-> "None"]

\* --retry-budget and --timeout values given to ma go (timeout 0 is accepted
\* by the option parser)
RetryBudgets == 0..MaxBudget
Timeouts == {0, 1}

\* agents/agents.yaml: the registered agents (id and capabilities; the
\* reliability, queue_health and cost fields keep their defaults, so the
\* sort of the candidates keeps the order of the file) and the defaults
AgentProfile(id, capabilities) == [id |-> id, capabilities |-> capabilities]
Agents == << AgentProfile("windsurf", {"implementation", "review"}),
             AgentProfile("cursor", {"implementation", "review"}) >>
DefaultBuilder == "windsurf"
DefaultReviewer == "cursor"
ShippedRegistry ==
  [agents |-> Agents, defaults |-> [builder |-> DefaultBuilder, reviewer |-> DefaultReviewer]]
\* registries a project can configure: none, one or two agents, with and
\* without the capability of a role, with and without defaults
AgentLists ==
  { <<>>,
    << AgentProfile("windsurf", {"implementation", "review"}) >>,
    Agents,
    << AgentProfile("windsurf", {"implementation"}), AgentProfile("cursor", {"planning"}) >>,
    << AgentProfile("windsurf", {"review"}), AgentProfile("cursor", {"implementation", "review"}) >> }
DefaultsSections ==
  { [builder |-> "", reviewer |-> ""],
    [builder |-> DefaultBuilder, reviewer |-> DefaultReviewer],
    [builder |-> "windsurf", reviewer |-> "windsurf"] }
Registries == {[agents |-> a, defaults |-> d] : a \in AgentLists, d \in DefaultsSections}
\* contract.supported_agents of the skill contract (empty: no restriction)
supported_agents == {}
\* --builder / --reviewer pairs given to ma go
ExplicitPairs == {<<"", "">>}
RolePairs == {<<"", "">>, <<"cursor", "cursor">>, <<"", "windsurf">>, <<"cursor", "">>}

\* the quality gates the skill contract declares
quality_gates == <<"lint", "unit_test">>

\* values an actor (or the user) can hand to a suspended node
BOk == [status |-> "completed", summary |-> "x",
        check_results |-> [lint |-> "pass", unit_test |-> "passed"]]
BNoSummary == [status |-> "completed"]
BGateWarn == [status |-> "completed", summary |-> "x", check_results |-> [lint |-> "fail"]]
BGateNonMap == [status |-> "completed", summary |-> "x", check_results |-> [nonmap |-> "list"]]
ErrorMarker == [status |-> "error", summary |-> "CLI timed out"]
NonDict == [nondict |-> "list"]
\* a file caught while it is being written: its text is not yet valid JSON
Partial == [partial |-> "{status: complet"]
RApprove == [decision |-> "approve", summary |-> "LGTM"]
RReject == [decision |-> "reject", feedback |-> "fix tests"]
RChanges == [decision |-> "request_changes", feedback |-> "more"]
BuildInputs == {BOk, BGateWarn, BGateNonMap, BNoSummary, ErrorMarker, NonDict}
ReviewInputs == {RApprove, RReject, RChanges, ErrorMarker, NonDict}
Values == BuildInputs \cup ReviewInputs
\* the values the model hands to a node waiting for `role`
InputsFor(role) == IF role = "reviewer" THEN ReviewInputs ELSE BuildInputs
\* the values the model lets an actor save to outbox/{role}.json
OutboxInputs(role) == IF role = "reviewer" THEN {RApprove, NonDict} ELSE {BOk, NonDict}
\* what a writer of outbox/{role}.json leaves there while a poller runs
PollInputs(role) ==
  IF role = "reviewer" THEN {Partial, NonDict, RApprove, RReject} ELSE {Partial, NonDict, BOk}

\* the values handed over with --file in the specification of all driver
\* operations, and the timeouts given there
DriverValues == {BOk, RReject}
DriverTimeouts == {1}

\* isinstance(v, dict)
IsDict(v) == "nondict" \notin DOMAIN v /\ "none" \notin DOMAIN v /\ "partial" \notin DOMAIN v
\* json.load(f) succeeds on the text of the file
Parses(v) == "partial" \notin DOMAIN v
\* {}
EmptyDict == [x \in {} |-> ""]
\* d.get(k, default)
Get(d, k, default) == IF k \in DOMAIN d THEN d[k] ELSE default
\* truthiness of a string-or-None value
Truthy(s) == s # None /\ s # ""

\* ---- state --------------------------------------------------------------
VARIABLES store, twin, yaml, yamlOrder, lock, outbox, inbox, task_md, history,
          watching, known, now, goes, resumes, planned, lastOp, registry, polled,
          inflight,
          decompose_result, sorted_tasks, prior_results, failed_ids, dec, agg,
          ctl

\* the state of a decomposition (_run_decomposed)
decVars == <<decompose_result, sorted_tasks, prior_results, failed_ids, dec, agg>>

vars == <<store, twin, yaml, yamlOrder, lock, outbox, inbox, task_md, history,
          watching, known, now, goes, resumes, planned, lastOp, registry, polled,
          inflight, decVars, ctl>>

\* the files of the helper scripts under scripts/; NoCtl when none is in use
NoCtl == [none |-> "None"]

\* WorkflowState of a thread nothing was written to
BlankVals ==
  [timeout_sec |-> 1800, retry_budget |-> 2, retry_count |-> 0,
   builder_id |-> None, reviewer_id |-> None,
   builder_explicit |-> "", reviewer_explicit |-> "",
   builder_output |-> NoneVal, reviewer_output |-> NoneVal,
   current_role |-> None, started_at |-> 0,
   conversation |-> <<>>, error |-> None, final_status |-> None]

\* the value a node hands to interrupt(); NoMarker when no node is suspended
NoMarker == [role |-> None, agent |-> None]

\* no checkpoint under this thread id
NoCkpt == [next |-> "NONE", vals |-> BlankVals, marker |-> NoMarker]

\* WorkflowState with conversation declared without the add reducer: every
\* key is overwritten by the update
Merge_replace(vals, upd) ==
  [k \in DOMAIN vals |-> Get(upd, k, vals[k])]

\* the reducer of WorkflowState: conversation is appended, every other key
\* is overwritten by the update
Merge(vals, upd) ==
  [k \in DOMAIN vals |->
     IF k = "conversation"
       THEN vals[k] \o Get(upd, k, <<>>)
       ELSE Get(upd, k, vals[k])]


\* ---- router.py: role assignment -------------------------------------------
load_agents == registry.agents
get_defaults == registry.defaults

\* _eligible: the agents not excluded, supported by the contract and having
\* every required capability, in the order of the registry
eligible(agents, required_capabilities, exclude) ==
  SelectSeq(agents, LAMBDA a :
    /\ a.id \notin exclude
    /\ (supported_agents # {} => a.id \in supported_agents)
    /\ required_capabilities \subseteq a.capabilities)

\* [a for a in agents if a.id != builder_id]
others(agents, builder_id) == SelectSeq(agents, LAMBDA a : a.id # builder_id)

\* resolve_builder; "ValueError" stands for the exception it raises
resolve_builder(agents, explicit) ==
  IF explicit # "" THEN explicit
  ELSE IF get_defaults.builder # "" THEN get_defaults.builder
  ELSE IF eligible(agents, {"implementation"}, {}) # <<>>
    THEN Head(eligible(agents, {"implementation"}, {})).id
  ELSE "ValueError"

\* resolve_reviewer returning the default reviewer without comparing it with
\* the builder
resolve_reviewer_default_unchecked(agents, builder_id, explicit) ==
  IF explicit # ""
    THEN IF explicit = builder_id THEN "ValueError" ELSE explicit
  ELSE IF get_defaults.reviewer # "" THEN get_defaults.reviewer
  ELSE IF eligible(agents, {"review"}, {builder_id}) # <<>>
    THEN Head(eligible(agents, {"review"}, {builder_id})).id
  ELSE IF others(agents, builder_id) # <<>> THEN Head(others(agents, builder_id)).id
  ELSE "ValueError"

\* resolve_reviewer; "ValueError" stands for the exception it raises
resolve_reviewer(agents, builder_id, explicit) ==
  IF explicit # ""
    THEN IF explicit = builder_id THEN "ValueError" ELSE explicit
  ELSE IF get_defaults.reviewer # "" /\ get_defaults.reviewer # builder_id
    THEN get_defaults.reviewer
  ELSE IF eligible(agents, {"review"}, {builder_id}) # <<>>
    THEN Head(eligible(agents, {"review"}, {builder_id})).id
  ELSE IF others(agents, builder_id) # <<>> THEN Head(others(agents, builder_id)).id
  ELSE "ValueError"

\* ---- graph.py: the four nodes ---------------------------------------------
\* plan_node resolving the roles at every execution, also on a retry
plan_node_reassign(state, t) ==
  LET b == resolve_builder(load_agents, state.builder_explicit)
      r == IF b = "ValueError" THEN "ValueError"
           ELSE resolve_reviewer(load_agents, b, state.reviewer_explicit)
  IN [current_role |-> "builder",
      builder_id |-> b,
      reviewer_id |-> r,
      started_at |-> t,
      conversation |-> << [role |-> "orchestrator", action |-> "assigned", agent |-> b] >>]

\* plan_node: the partial state update it returns at time t
plan_node(state, t) ==
  LET reuse == Truthy(state.builder_id) /\ Truthy(state.reviewer_id)
      b == IF reuse THEN state.builder_id
           ELSE resolve_builder(load_agents, state.builder_explicit)
      r == IF reuse THEN state.reviewer_id
           ELSE IF b = "ValueError" THEN "ValueError"
           ELSE resolve_reviewer(load_agents, b, state.reviewer_explicit)
  IN [current_role |-> "builder",
      builder_id |-> b,
      reviewer_id |-> r,
      started_at |-> t,
      conversation |-> << [role |-> "orchestrator", action |-> "assigned", agent |-> b] >>]

\* plan_node raises the ValueError of the router, before it renders or
\* writes anything
plan_raises(state) ==
  plan_node(state, 0).builder_id = "ValueError" \/ plan_node(state, 0).reviewer_id = "ValueError"

\* the builder prompt plan_node renders: task, agent and retry context
builder_prompt(state, b) ==
  [agent |-> b,
   retry_count |-> state.retry_count,
   retry_feedback |->
     IF state.retry_count > 0 /\ IsDict(state.reviewer_output)
       THEN Get(state.reviewer_output, "feedback", "") ELSE ""]

\* files plan_node touches: clear_outbox("builder"), write_inbox, TASK.md
plan_files(files, state) ==
  LET b == plan_node(state, 0).builder_id
  IN [files EXCEPT !.outbox["builder"] = NoneVal,
                   !.inbox["builder"] = builder_prompt(state, b),
                   !.task_md = "builder"]

\* build_errors with the check of the summary field left out
build_errors_status_only(result) ==
  IF ~IsDict(result) THEN << "output must be a JSON object" >>
  ELSE (IF "status" \notin DOMAIN result THEN << "missing 'status' field" >> ELSE <<>>)

\* the validation messages of build_node for a resumed value
build_errors(result) ==
  IF ~IsDict(result) THEN << "output must be a JSON object" >>
  ELSE (IF "status" \notin DOMAIN result THEN << "missing 'status' field" >> ELSE <<>>)
       \o (IF "summary" \notin DOMAIN result THEN << "missing 'summary' field" >> ELSE <<>>)

\* f"Builder output invalid: {'; '.join(errors)}"
invalid_error(errors) ==
  IF errors = << "output must be a JSON object" >>
    THEN "Builder output invalid: output must be a JSON object"
  ELSE IF errors = << "missing 'status' field" >>
    THEN "Builder output invalid: missing 'status' field"
  ELSE IF errors = << "missing 'summary' field" >>
    THEN "Builder output invalid: missing 'summary' field"
  ELSE "Builder output invalid: missing 'status' field; missing 'summary' field"

\* str(gate_result).lower() in ("pass", "passed", "ok", "success", "true")
GatePassed(v) == v \in {"pass", "passed", "ok", "success", "true"}

\* the gate warnings of build_node for a check_results map
RECURSIVE gate_warnings_of(_, _)
gate_warnings_of(gates, check_results) ==
  IF gates = <<>> THEN <<>>
  ELSE LET gate == Head(gates)
           w == IF gate \notin DOMAIN check_results
                  THEN << [gate |-> gate, warning |-> "not reported"] >>
                ELSE IF ~GatePassed(check_results[gate])
                  THEN << [gate |-> gate, warning |-> "failed"] >>
                ELSE <<>>
       IN w \o gate_warnings_of(Tail(gates), check_results)

\* result.setdefault("gate_warnings", gate_warnings)
SetDefault(result, k, v) ==
  [x \in DOMAIN result \cup {k} |-> IF x \in DOMAIN result THEN result[x] ELSE v]

\* timed_out with the comparison off by one
timed_out_off_by_one(state, t) ==
  /\ state.started_at # 0
  /\ state.timeout_sec # 0
  /\ t - state.started_at > state.timeout_sec + 1

\* the timeout check of build_node: elapsed time since started_at
timed_out(state, t) ==
  /\ state.started_at # 0
  /\ state.timeout_sec # 0
  /\ t - state.started_at > state.timeout_sec

\* build_node resumed with `result` at time t.  raise names the exception
\* that escapes the node (None when it returns), upd is the partial update,
\* passed tells that the reviewer prompt was written.
build_node(state, result, t) ==
  LET elapsed == t - state.started_at
      errors == build_errors(result)
      check_results == Get(result, "check_results", EmptyDict)
      warnings == gate_warnings_of(quality_gates, check_results)
      result2 == IF warnings # <<>> THEN SetDefault(result, "gate_warnings", warnings)
                 ELSE result
  IN IF timed_out(state, t)
       THEN [raise |-> None, passed |-> FALSE,
             upd |-> [error |-> "TIMEOUT",
                      final_status |-> "failed",
                      conversation |-> << [role |-> "orchestrator", action |-> "timeout",
                                           elapsed |-> elapsed] >>]]
     ELSE IF errors # <<>>
       THEN [raise |-> None, passed |-> FALSE,
             upd |-> [error |-> invalid_error(errors),
                      final_status |-> "failed",
                      conversation |-> << [role |-> "builder", output |-> "INVALID"] >>]]
     ELSE IF "nonmap" \in DOMAIN check_results /\ quality_gates # <<>>
       THEN [raise |-> "AttributeError", passed |-> FALSE, upd |-> [current_role |-> "builder"]]
     ELSE [raise |-> None, passed |-> TRUE,
           upd |-> [builder_output |-> result2,
                    current_role |-> "reviewer",
                    conversation |-> << [role |-> "builder",
                                         output |-> Get(result, "summary", "")] >>]]

\* files build_node touches when the output is accepted
build_files(files, state, out) ==
  IF out.passed
    THEN [files EXCEPT !.outbox["reviewer"] = NoneVal,
                       !.inbox["reviewer"] = [agent |-> state.reviewer_id,
                                              builder_output |-> out.upd.builder_output],
                       !.task_md = "reviewer"]
    ELSE files

\* review_node resumed with `result`
review_node(state, result) ==
  IF ~IsDict(result)
    THEN [reviewer_output |-> [decision |-> "reject", feedback |-> "Invalid reviewer output"],
          conversation |-> << [role |-> "reviewer", decision |-> "reject"] >>]
    ELSE [reviewer_output |-> result,
          conversation |-> << [role |-> "reviewer",
                               decision |-> Get(result, "decision", "reject")] >>]

\* decide_node taking a review value without a decision for an approval
decide_node_default_approve(state) ==
  LET reviewer_output == state.reviewer_output
      decision == Get(reviewer_output, "decision", "approve")
      retry_count == state.retry_count + 1
      budget == state.retry_budget
  IN IF decision = "approve"
       THEN [final_status |-> "approved",
             conversation |-> << [role |-> "orchestrator", action |-> "approved"] >>]
     ELSE IF retry_count > budget
       THEN [error |-> "BUDGET_EXHAUSTED",
             retry_count |-> retry_count,
             final_status |-> "escalated",
             conversation |-> << [role |-> "orchestrator", action |-> "escalated",
                                  reason |-> "budget exhausted"] >>]
     ELSE [retry_count |-> retry_count,
           conversation |-> << [role |-> "orchestrator", action |-> "retry",
                                feedback |-> Get(reviewer_output, "feedback", "")] >>]

\* decide_node
decide_node(state) ==
  LET reviewer_output == state.reviewer_output
      decision == Get(reviewer_output, "decision", "reject")
      retry_count == state.retry_count + 1
      budget == state.retry_budget
  IN IF decision = "approve"
       THEN [final_status |-> "approved",
             conversation |-> << [role |-> "orchestrator", action |-> "approved"] >>]
     ELSE IF retry_count > budget
       THEN [error |-> "BUDGET_EXHAUSTED",
             retry_count |-> retry_count,
             final_status |-> "escalated",
             conversation |-> << [role |-> "orchestrator", action |-> "escalated",
                                  reason |-> "budget exhausted"] >>]
     ELSE [retry_count |-> retry_count,
           conversation |-> << [role |-> "orchestrator", action |-> "retry",
                                feedback |-> Get(reviewer_output, "feedback", "")] >>]

\* files decide_node touches: archive_conversation on approve and escalate
decide_files(files, tid, state, upd) ==
  IF "final_status" \in DOMAIN upd
    THEN [files EXCEPT !.history[tid] = state.conversation \o upd.conversation]
    ELSE files

\* ---- graph.py: routing ----------------------------------------------------
route_after_build(state) ==
  IF Truthy(state.error) \/ state.final_status \in {"failed", "cancelled"}
    THEN "end" ELSE "review"

\* route_decision sending a retry to END
route_decision_retry_ends(state) ==
  IF Truthy(state.error) THEN "end"
  ELSE IF state.final_status = "approved" THEN "end"
  ELSE "end"

route_decision(state) ==
  IF Truthy(state.error) THEN "end"
  ELSE IF state.final_status = "approved" THEN "end"
  ELSE "retry"


\* ---- the engine: one app.invoke on a checkpointed thread ------------------
\* the values build_node and review_node hand to interrupt()
build_interrupt(state) == [role |-> "builder", agent |-> state.builder_id]
\* review_node handing the builder's id to interrupt()
review_interrupt_builder_agent(state) == [role |-> "reviewer", agent |-> state.builder_id]
review_interrupt(state) == [role |-> "reviewer", agent |-> state.reviewer_id]

\* plan runs, then build starts and suspends in interrupt()
after_plan(vals, t, files) ==
  IF plan_raises(vals)
    THEN [ck |-> [next |-> "plan", vals |-> vals, marker |-> NoMarker],
          files |-> files, nodes |-> <<"plan">>, raise |-> "ValueError"]
  ELSE LET vals1 == Merge(vals, plan_node(vals, t))
       IN [ck |-> [next |-> "build", vals |-> vals1, marker |-> build_interrupt(vals1)],
           files |-> plan_files(files, vals),
           nodes |-> <<"plan", "build">>,
           raise |-> None]

\* app.invoke(initial_state, config): the input is written over the values
\* the thread's checkpoint already holds, and the graph runs from START
invoke_input(ck, input, t, files) ==
  after_plan(Merge(ck.vals, input), t, files)

\* app.invoke(Command(resume=v), config) on a thread suspended in build or
\* review: the suspended node runs with v, then the graph advances to the
\* next interrupt() or to END
invoke_resume(ck, tid, v, t, files) ==
  IF ck.next = "plan" THEN after_plan(ck.vals, t, files)
  ELSE IF ck.next = "build"
    THEN LET out == build_node(ck.vals, v, t)
             vals1 == Merge(ck.vals, out.upd)
             files1 == build_files(files, ck.vals, out)
         IN IF out.raise # None
              THEN [ck |-> ck, files |-> files, nodes |-> <<"build">>, raise |-> out.raise]
            ELSE IF route_after_build(vals1) = "end"
              THEN [ck |-> [next |-> "END", vals |-> vals1, marker |-> NoMarker],
                    files |-> files1, nodes |-> <<"build">>, raise |-> None]
            ELSE [ck |-> [next |-> "review", vals |-> vals1,
                          marker |-> review_interrupt(vals1)], files |-> files1,
                  nodes |-> <<"build", "review">>, raise |-> None]
    ELSE LET vals1 == Merge(ck.vals, review_node(ck.vals, v))
             dupd == decide_node(vals1)
             vals2 == Merge(vals1, dupd)
             files2 == decide_files(files, tid, vals1, dupd)
             again == after_plan(vals2, t, files2)
         IN IF route_decision(vals2) = "end"
              THEN [ck |-> [next |-> "END", vals |-> vals2, marker |-> NoMarker],
                    files |-> files2, nodes |-> <<"review", "decide">>, raise |-> None]
            ELSE [again EXCEPT !.nodes = <<"review", "decide">> \o again.nodes]

\* the checkpointer of compile_graph keeping the checkpoints in memory
AfterExit_in_memory(st) == [t \in DOMAIN st |-> NoCkpt]

\* compile_graph: the checkpointer is a SqliteSaver on store.db, so the
\* checkpoints a process wrote are still there after the process has exited
AfterExit(st) == st

\* ---- watcher.py: OutboxPoller ----------------------------------------------
\* known[r] says that _known[r] is the mtime of the file outbox/r.json as it
\* stands (every write gives the file a newer mtime).
\* check_once: examines the files that are new or newer than recorded,
\* records their mtime, and returns those whose text json.load accepts
check_once_unrecorded(kn, ob) ==
  LET examined == {r \in Roles : ob[r] # NoneVal /\ ~kn[r]}
  IN [known |-> kn, examined |-> examined,
      results |-> {r \in examined : Parses(ob[r])}]

check_once(kn, ob) ==
  LET examined == {r \in Roles : ob[r] # NoneVal /\ ~kn[r]}
  IN [known |-> [r \in Roles |-> kn[r] \/ r \in examined], examined |-> examined,
      results |-> {r \in examined : Parses(ob[r])}]

\* what the poller of the running watch loop did with the present version of
\* each outbox file (history for the properties): whether a check_once
\* examined it, how often it was returned, how often the loop resumed with it
NoPolled == [r \in Roles |-> [examined |-> FALSE, returned |-> 0, resumed |-> 0]]
UpTo2(n) == IF n >= 2 THEN 2 ELSE n + 1
PolledAfter(chk, resumed_role) ==
  [r \in Roles |->
     [examined |-> polled[r].examined \/ r \in chk.examined,
      returned |-> IF r \in chk.results THEN UpTo2(polled[r].returned) ELSE polled[r].returned,
      resumed |-> IF r = resumed_role THEN UpTo2(polled[r].resumed) ELSE polled[r].resumed]]

\* ---- workspace.py ---------------------------------------------------------
Files == [outbox |-> outbox, inbox |-> inbox, task_md |-> task_md, history |-> history]

clear_runtime(files) ==
  [files EXCEPT !.outbox = [r \in Roles |-> NoneVal],
                !.inbox = [r \in Roles |-> NoneVal],
                !.task_md = None]

\* read_outbox: None when the file is missing or does not hold a JSON object
read_outbox(role) == IF IsDict(outbox[role]) THEN outbox[role] ELSE NoneVal

\* the yaml files of tasks/ in order of modification time, newest first,
\* after save_task_yaml(tid, ...)
Touched(order, tid) == <<tid>> \o SelectSeq(order, LAMBDA x: x # tid)

\* cli.py _detect_active_task: the newest task yaml with status active
RECURSIVE detect_in(_)
detect_in(order) ==
  IF order = <<>> THEN None
  ELSE IF yaml[Head(order)] = "active" THEN Head(order)
  ELSE detect_in(Tail(order))

detect_active_task == detect_in(yamlOrder)

\* the role a suspended thread waits for: role = info.get("role", "builder")
\* of the interrupt value, "builder" when the thread has no interrupt
WaitingRole(ck) == IF ck.marker.role # None THEN ck.marker.role ELSE "builder"
\* snapshot.next is not empty
Pending(ck) == ck.next \in {"plan", "build", "review"}

\* ---- what the last driver operation did (history for the properties) -----
Op(op, tid, res, v, pre, t) ==
  [op |-> op, tid |-> tid, nodes |-> res.nodes, raise |-> res.raise, v |-> v, at |-> t,
   preNext |-> pre.next, preFinal |-> pre.vals.final_status,
   preError |-> pre.vals.error, preRetry |-> pre.vals.retry_count,
   preYaml |-> yaml[tid]]

NoRun == [nodes |-> <<>>, raise |-> None]

SetFiles(files) ==
  /\ outbox' = files.outbox
  /\ inbox' = files.inbox
  /\ task_md' = files.task_md
  /\ history' = files.history

\* ---- initial state ------------------------------------------------------
\* an empty workspace: no checkpoint, no task yaml, no lock, no runtime file;
\* ids are the thread ids the commands of a specification can use
StartOn(ids) ==
  /\ store = [t \in ids |-> NoCkpt]
  /\ twin = [t \in ids |-> NoCkpt]
  /\ yaml = [t \in ids |-> "none"]
  /\ yamlOrder = <<>>
  /\ lock = None
  /\ outbox = [r \in Roles |-> NoneVal]
  /\ inbox = [r \in Roles |-> NoneVal]
  /\ task_md = None
  /\ history = [t \in ids |-> <<>>]
  /\ watching = None
  /\ known = [r \in Roles |-> FALSE]
  /\ now = 1
  /\ goes = 0
  /\ resumes = 0
  /\ planned = [t \in ids |-> 0]
  /\ lastOp = Op("init", "task-a", NoRun, NoneVal, NoCkpt, 1)
  /\ polled = NoPolled
  /\ inflight = {}

Start == StartOn(TaskIds)

\* ma go was not given --decompose: no decomposition is under way
NoDecomposition ==
  /\ decompose_result = NoneVal
  /\ sorted_tasks = NoneVal
  /\ prior_results = <<>>
  /\ failed_ids = {}
  /\ dec = NoneVal
  /\ agg = NoneVal

Init == Start /\ registry = ShippedRegistry /\ ctl = NoCtl /\ NoDecomposition


\* the wall-clock readings time.time() can return (never going back).  The
\* model lets time pass while a builder works; the other steps read the
\* clock where it stands.
Times == 1..MaxTime
ClockAt(ck) == IF ck.next = "build" THEN {t \in Times : t >= now} ELSE {now}

\* ---- cli.py: the driver operations ---------------------------------------
\* initial_state of _run_single_task
initial_state(budget, timeout, builder, reviewer) ==
  [timeout_sec |-> timeout, retry_budget |-> budget, retry_count |-> 0,
   builder_explicit |-> builder, reviewer_explicit |-> reviewer,
   conversation |-> <<>>]

\* ma go REQUIREMENT --task-id tid [--no-watch]: refuses when a lock is held,
\* else clears the runtime files, takes the lock, runs the graph to the first
\* suspension, marks the task active and (unless --no-watch) enters the
\* watch loop.  When plan raises, it releases the lock, marks the task
\* failed and exits.  A task id that was used before is given the options it was
\* given the first time (the command is issued again).
Go(tid, budget, timeout, pair, no_watch) ==
  /\ goes < MaxGo
  /\ lock = None
  /\ store[tid].next # "NONE" =>
       budget = store[tid].vals.retry_budget /\ timeout = store[tid].vals.timeout_sec
  /\ no_watch \/ watching = None
  /\ LET input == initial_state(budget, timeout, pair[1], pair[2])
         files1 == clear_runtime(Files)
         res == invoke_input(store[tid], input, now, files1)
         st == [store EXCEPT ![tid] = res.ck]
     IN /\ store' = IF no_watch \/ res.raise # None THEN AfterExit(st) ELSE st
        /\ twin' = [twin EXCEPT ![tid] = invoke_input(twin[tid], input, now, files1).ck]
        /\ SetFiles(res.files)
        /\ lastOp' = Op("go", tid, res, NoneVal, store[tid], now)
        /\ IF res.raise # None
             THEN /\ lock' = None
                  /\ yaml' = [yaml EXCEPT ![tid] = "failed"]
                  /\ UNCHANGED <<watching, known, planned, polled>>
             ELSE /\ lock' = tid
                  /\ yaml' = [yaml EXCEPT ![tid] = "active"]
                  /\ watching' = IF no_watch THEN watching ELSE tid
                  /\ known' = IF no_watch THEN known ELSE [r \in Roles |-> FALSE]
                  /\ polled' = IF no_watch THEN polled ELSE NoPolled
                  /\ planned' = [planned EXCEPT ![tid] = now]
  /\ yamlOrder' = Touched(yamlOrder, tid)
  /\ goes' = goes + 1
  /\ UNCHANGED <<now, resumes, registry, ctl, inflight, decVars>>

\* an actor (IDE assistant, spawned CLI agent, or the driver's error marker)
\* saves its output to outbox/{role}.json
ActorWrite(role, v) ==
  /\ resumes < MaxResume
  /\ lock # None
  /\ Pending(store[lock])
  /\ role = WaitingRole(store[lock])
  /\ v \in OutboxInputs(role)
  /\ outbox[role] = NoneVal
  /\ outbox' = [outbox EXCEPT ![role] = v]
  /\ known' = [known EXCEPT ![role] = FALSE]
  /\ polled' = [polled EXCEPT ![role] = NoPolled[role]]
  /\ UNCHANGED <<store, twin, yaml, yamlOrder, lock, inbox, task_md, history,
                 watching, now, goes, resumes, planned, lastOp, registry, ctl, inflight, decVars>>

\* ma done [--task-id tid] [--file given]: resumes the suspended run with the
\* output read from --file, else from the outbox of the awaited role
done(tidArg, given, t) ==
  LET task_id == IF tidArg # None THEN tidArg ELSE detect_active_task
  IN /\ task_id # None
     /\ Pending(store[task_id])
     /\ t \in ClockAt(store[task_id])
     /\ now' = t
     /\ given \in InputsFor(WaitingRole(store[task_id])) \cup {NoneVal}
     /\ LET role == WaitingRole(store[task_id])
            output_data == IF given # NoneVal THEN given ELSE read_outbox(role)
            res == invoke_resume(store[task_id], task_id, output_data, t, Files)
            mirror == invoke_resume(twin[task_id], task_id, output_data, t, Files)
            final == res.ck.vals.final_status
        IN /\ output_data # NoneVal
           /\ lastOp' = Op("done", task_id, res, output_data, store[task_id], t)
           /\ planned' = IF res.raise = None /\ \E i \in DOMAIN res.nodes : res.nodes[i] = "plan"
                           THEN [planned EXCEPT ![task_id] = t] ELSE planned
           /\ twin' = [twin EXCEPT ![task_id] = mirror.ck]
           /\ IF res.raise # None
                THEN /\ lock' = None
                     /\ SetFiles(clear_runtime(Files))
                     /\ yaml' = [yaml EXCEPT ![task_id] = "failed"]
                     /\ yamlOrder' = Touched(yamlOrder, task_id)
                     /\ store' = AfterExit(store)
                ELSE /\ store' = AfterExit([store EXCEPT ![task_id] = res.ck])
                     /\ IF res.ck.next = "END"
                          THEN /\ lock' = None
                               /\ SetFiles(clear_runtime(res.files))
                               /\ IF Truthy(final)
                                    THEN /\ yaml' = [yaml EXCEPT ![task_id] = final]
                                         /\ yamlOrder' = Touched(yamlOrder, task_id)
                                    ELSE UNCHANGED <<yaml, yamlOrder>>
                          ELSE /\ SetFiles(res.files)
                               /\ UNCHANGED <<lock, yaml, yamlOrder>>
     /\ UNCHANGED <<watching, known, goes, registry, ctl, inflight, decVars, polled>>

\* ma done, counted against the bound on the resumes of a behaviour
Done(tidArg, given, t) ==
  /\ resumes < MaxResume
  /\ resumes' = resumes + 1
  /\ done(tidArg, given, t)

\* ma watch [--task-id tid]: checks the lock, reports a thread without a
\* pending interrupt as already finished, else enters the watch loop
WatchCmd(tidArg) ==
  LET task_id == IF tidArg # None THEN tidArg ELSE detect_active_task
  IN /\ watching = None
     /\ task_id # None
     /\ ~(lock # None /\ lock # task_id)
     /\ IF ~Pending(store[task_id])
          THEN /\ lock' = None
               /\ SetFiles(clear_runtime(Files))
               /\ UNCHANGED <<watching, known, polled>>
          ELSE /\ lock' = task_id
               /\ watching' = task_id
               /\ known' = [r \in Roles |-> FALSE]
               /\ polled' = NoPolled
               /\ UNCHANGED <<outbox, inbox, task_md, history>>
     /\ UNCHANGED <<store, twin, yaml, yamlOrder, now, goes, resumes, planned, lastOp,
                    registry, ctl, inflight, decVars>>

\* one iteration of _run_watch_loop for the watched task: finish when the
\* thread has no pending interrupt, else poll the outbox once and resume the
\* run with the output found for the awaited role
WatchPoll(t) ==
  /\ watching # None
  /\ \A e \in inflight : e.driver # "watch"
  /\ t \in ClockAt(store[watching])
  /\ LET tid == watching
         ck == store[tid]
         final == ck.vals.final_status
         role == WaitingRole(ck)
         chk == check_once(known, outbox)
         res == invoke_resume(ck, tid, outbox[role], t, Files)
         mirror == invoke_resume(twin[tid], tid, outbox[role], t, Files)
     IN IF ~Pending(ck)
          THEN /\ IF Truthy(final)
                    THEN /\ yaml' = [yaml EXCEPT ![tid] = final]
                         /\ yamlOrder' = Touched(yamlOrder, tid)
                    ELSE UNCHANGED <<yaml, yamlOrder>>
               /\ lock' = None
               /\ SetFiles(clear_runtime(Files))
               /\ watching' = None
               /\ store' = AfterExit(store)
               /\ known' = [r \in Roles |-> FALSE]
               /\ polled' = NoPolled
               /\ UNCHANGED <<twin, resumes, planned, lastOp, now>>
        ELSE IF role \notin chk.results
          THEN /\ known' = chk.known
               /\ polled' = PolledAfter(chk, None)
               /\ <<known', polled'>> # <<known, polled>>
               /\ UNCHANGED <<store, twin, yaml, yamlOrder, lock, outbox, inbox, task_md,
                              history, watching, resumes, planned, lastOp, now>>
        ELSE /\ resumes < MaxResume
             /\ resumes' = resumes + 1
             /\ known' = IF res.raise # None THEN [r \in Roles |-> FALSE] ELSE chk.known
             /\ polled' = IF res.raise # None THEN NoPolled ELSE PolledAfter(chk, role)
             /\ now' = t
             /\ lastOp' = Op("watch-resume", tid, res, outbox[role], ck, t)
             /\ planned' = IF res.raise = None /\ \E i \in DOMAIN res.nodes : res.nodes[i] = "plan"
                             THEN [planned EXCEPT ![tid] = t] ELSE planned
             /\ twin' = [twin EXCEPT ![tid] = mirror.ck]
             /\ IF res.raise # None
                  THEN /\ lock' = None
                       /\ SetFiles(clear_runtime(Files))
                       /\ yaml' = [yaml EXCEPT ![tid] = "failed"]
                       /\ yamlOrder' = Touched(yamlOrder, tid)
                       /\ watching' = None
                       /\ store' = AfterExit(store)
                  ELSE /\ store' = [store EXCEPT ![tid] = res.ck]
                       /\ SetFiles(res.files)
                       /\ UNCHANGED <<lock, yaml, yamlOrder, watching>>
  /\ UNCHANGED <<goes, registry, ctl, inflight, decVars>>

\* Ctrl-C in the watch loop: the process exits, the task stays active
WatchStop ==
  /\ watching # None
  /\ watching' = None
  /\ known' = [r \in Roles |-> FALSE]
  /\ polled' = NoPolled
  /\ store' = AfterExit(store)
  /\ UNCHANGED <<twin, yaml, yamlOrder, lock, outbox, inbox, task_md, history,
                 now, goes, resumes, planned, lastOp, registry, ctl, inflight, decVars>>

\* ma cancel [--task-id tid]: marks the task yaml cancelled, releases the
\* lock and clears the runtime files
Cancel(tidArg) ==
  LET detected == detect_active_task
      task_id == IF tidArg # None THEN tidArg
                 ELSE IF detected # None THEN detected ELSE lock
  IN /\ task_id # None
     /\ yaml[task_id] # "cancelled" \/ lock # None
     /\ yaml' = [yaml EXCEPT ![task_id] = "cancelled"]
     /\ yamlOrder' = Touched(yamlOrder, task_id)
     /\ lock' = None
     /\ SetFiles(clear_runtime(Files))
     /\ UNCHANGED <<store, twin, watching, known, now, goes, resumes, planned, lastOp,
                    registry, ctl, inflight, decVars, polled>>

\* every driver operation, with a few representative outputs
Next ==
  \/ \E tid \in TaskIds, budget \in RetryBudgets, timeout \in DriverTimeouts,
        pair \in ExplicitPairs, no_watch \in BOOLEAN :
       Go(tid, budget, timeout, pair, no_watch)
  \/ \E role \in Roles, v \in Values : ActorWrite(role, v)
  \/ \E tidArg \in TaskIds \cup {None}, given \in DriverValues \cup {NoneVal}, t \in Times :
       Done(tidArg, given, t)
  \/ \E tidArg \in TaskIds \cup {None} : WatchCmd(tidArg)
  \/ \E t \in Times : WatchPoll(t)
  \/ WatchStop
  \/ \E tidArg \in TaskIds \cup {None} : Cancel(tidArg)

Spec == Init /\ [][Next]_vars

\* runs driven by ma go --no-watch and ma done --task-id --file only, with
\* every output value and timeout
NextRun ==
  \/ \E tid \in TaskIds, budget \in RetryBudgets, timeout \in Timeouts,
        pair \in ExplicitPairs :
       Go(tid, budget, timeout, pair, TRUE)
  \/ \E tid \in TaskIds, given \in Values, t \in Times : Done(tid, given, t)

SpecRun == Init /\ [][NextRun]_vars

\* the user edits agents/agents.yaml between two commands
RegistryEdit(reg) ==
  /\ reg # registry
  /\ registry' = reg
  /\ lastOp' = [lastOp EXCEPT !.op = "edit"]
  /\ UNCHANGED <<store, twin, yaml, yamlOrder, lock, outbox, inbox, task_md, history,
                 watching, known, now, goes, resumes, planned, polled, inflight, decVars,
                 ctl>>

\* values ma done is given in the runs that exercise the role assignment
RoleValues == {BOk, RReject}

\* runs under every registry, with --builder / --reviewer overrides and
\* edits of the registry between the commands
InitRoles == Start /\ registry \in Registries /\ ctl = NoCtl /\ NoDecomposition

NextRoles ==
  \/ \E tid \in TaskIds, pair \in RolePairs : Go(tid, MaxBudget, 0, pair, TRUE)
  \/ \E tid \in TaskIds, given \in RoleValues : Done(tid, given, now)
  \/ \E reg \in Registries : RegistryEdit(reg)

SpecRoles == InitRoles /\ [][NextRoles]_vars

\* a writer saves or rewrites outbox/{role}.json while a watch loop polls:
\* the poller can catch the file half written, holding JSON that is not an
\* object, or complete; every write gives the file a newer mtime
OutboxWrite(role, v) ==
  /\ watching # None
  /\ v \in PollInputs(role)
  /\ v # outbox[role]
  /\ outbox' = [outbox EXCEPT ![role] = v]
  /\ known' = [known EXCEPT ![role] = FALSE]
  /\ polled' = [polled EXCEPT ![role] = NoPolled[role]]
  /\ UNCHANGED <<store, twin, yaml, yamlOrder, lock, inbox, task_md, history,
                 watching, now, goes, resumes, planned, lastOp, registry, ctl, inflight, decVars>>

\* runs driven by the watch loop of ma go and ma watch, with outbox files
\* written and rewritten for either role while the loop polls
NextPoll ==
  \/ \E tid \in TaskIds, budget \in RetryBudgets : Go(tid, budget, 0, <<"", "">>, FALSE)
  \/ \E role \in Roles, v \in Values \cup {Partial} : OutboxWrite(role, v)
  \/ \E tid \in TaskIds : WatchCmd(tid)
  \/ WatchPoll(now)
  \/ WatchStop

SpecPoll == Init /\ [][NextPoll]_vars

\* a reviewer takes its time: the clock advances while the run is suspended
\* in review (no command runs, nothing else changes)
ReviewerWorks(t) ==
  /\ \E tid \in TaskIds : store[tid].next = "review"
  /\ t \in Times /\ t > now
  /\ now' = t
  /\ UNCHANGED <<store, twin, yaml, yamlOrder, lock, outbox, inbox, task_md, history,
                 watching, known, goes, resumes, planned, lastOp, registry, ctl, inflight, decVars, polled>>

\* values ma done is given in the runs with slow actors
LateValues == {BOk, RApprove, RReject}

\* runs with a timeout of one time unit whose builder and reviewer may both
\* answer late
NextLate ==
  \/ \E tid \in TaskIds, budget \in RetryBudgets : Go(tid, budget, 1, <<"", "">>, TRUE)
  \/ \E tid \in TaskIds, given \in LateValues, t \in Times : Done(tid, given, t)
  \/ \E t \in Times : ReviewerWorks(t)

SpecLate == Init /\ [][NextLate]_vars

\* ---- two drivers on one run: the watch loop and a separate ma done ----------
\* inflight holds the calls of app.invoke(Command(resume=v)) that have
\* started and not yet returned: the driver, the run, the checkpoint the
\* call started from and the value.  Each driver is a process of its own;
\* done never looks at the lock, and nothing tells it that a watch loop runs.

\* ma done --task-id tid [--file given], up to the call of app.invoke
DoneBegin(tid, given) ==
  /\ resumes < MaxResume
  /\ Pending(store[tid])
  /\ \A e \in inflight : e.driver # "done"
  /\ LET role == WaitingRole(store[tid])
         output_data == IF given # NoneVal THEN given ELSE read_outbox(role)
     IN /\ output_data # NoneVal
        /\ inflight' = inflight \cup
             {[driver |-> "done", tid |-> tid, ck |-> store[tid], v |-> output_data]}
  /\ resumes' = resumes + 1
  /\ UNCHANGED <<store, twin, yaml, yamlOrder, lock, outbox, inbox, task_md, history,
                 watching, known, now, goes, planned, lastOp, registry, ctl, polled, decVars>>

\* app.invoke of ma done returns: the checkpoint is written, then done marks
\* the task and releases the lock as in Done
DoneEnd(e) ==
  /\ e \in inflight /\ e.driver = "done"
  /\ inflight' = inflight \ {e}
  /\ LET res == invoke_resume(e.ck, e.tid, e.v, now, Files)
         final == res.ck.vals.final_status
     IN /\ lastOp' = Op("done", e.tid, res, e.v, e.ck, now)
        /\ planned' = IF res.raise = None /\ \E i \in DOMAIN res.nodes : res.nodes[i] = "plan"
                        THEN [planned EXCEPT ![e.tid] = now] ELSE planned
        /\ IF res.raise # None
             THEN /\ lock' = None
                  /\ SetFiles(clear_runtime(Files))
                  /\ yaml' = [yaml EXCEPT ![e.tid] = "failed"]
                  /\ yamlOrder' = Touched(yamlOrder, e.tid)
                  /\ store' = store
             ELSE /\ store' = [store EXCEPT ![e.tid] = res.ck]
                  /\ IF res.ck.next = "END"
                       THEN /\ lock' = None
                            /\ SetFiles(clear_runtime(res.files))
                            /\ IF Truthy(final)
                                 THEN /\ yaml' = [yaml EXCEPT ![e.tid] = final]
                                      /\ yamlOrder' = Touched(yamlOrder, e.tid)
                                 ELSE UNCHANGED <<yaml, yamlOrder>>
                       ELSE /\ SetFiles(res.files)
                            /\ UNCHANGED <<lock, yaml, yamlOrder>>
  /\ UNCHANGED <<twin, watching, known, now, goes, resumes, registry, ctl, polled, decVars>>

\* an iteration of _run_watch_loop that found the output of the awaited role,
\* up to the call of app.invoke
WatchBegin ==
  /\ watching # None
  /\ resumes < MaxResume
  /\ Pending(store[watching])
  /\ \A e \in inflight : e.driver # "watch"
  /\ LET role == WaitingRole(store[watching])
         chk == check_once(known, outbox)
     IN /\ role \in chk.results
        /\ known' = chk.known
        /\ polled' = PolledAfter(chk, role)
        /\ inflight' = inflight \cup
             {[driver |-> "watch", tid |-> watching, ck |-> store[watching], v |-> outbox[role]]}
  /\ resumes' = resumes + 1
  /\ UNCHANGED <<store, twin, yaml, yamlOrder, lock, outbox, inbox, task_md, history,
                 watching, now, goes, planned, lastOp, registry, ctl, decVars>>

\* app.invoke of the watch loop returns
WatchEnd(e) ==
  /\ e \in inflight /\ e.driver = "watch"
  /\ inflight' = inflight \ {e}
  /\ LET res == invoke_resume(e.ck, e.tid, e.v, now, Files)
     IN /\ lastOp' = Op("watch-resume", e.tid, res, e.v, e.ck, now)
        /\ planned' = IF res.raise = None /\ \E i \in DOMAIN res.nodes : res.nodes[i] = "plan"
                        THEN [planned EXCEPT ![e.tid] = now] ELSE planned
        /\ IF res.raise # None
             THEN /\ lock' = None
                  /\ SetFiles(clear_runtime(Files))
                  /\ yaml' = [yaml EXCEPT ![e.tid] = "failed"]
                  /\ yamlOrder' = Touched(yamlOrder, e.tid)
                  /\ watching' = None
                  /\ known' = [r \in Roles |-> FALSE]
                  /\ polled' = NoPolled
                  /\ store' = store
             ELSE /\ store' = [store EXCEPT ![e.tid] = res.ck]
                  /\ SetFiles(res.files)
                  /\ UNCHANGED <<lock, yaml, yamlOrder, watching, known, polled>>
  /\ UNCHANGED <<twin, now, goes, resumes, registry, ctl, decVars>>

\* a run watched by ma go while ma done is invoked from another terminal
NextRace ==
  \/ \E tid \in TaskIds, budget \in RetryBudgets : Go(tid, budget, 0, <<"", "">>, FALSE)
  \/ \E role \in Roles, v \in Values : ActorWrite(role, v)
  \/ \E tid \in TaskIds, given \in {NoneVal, BOk} : DoneBegin(tid, given)
  \/ \E e \in inflight : DoneEnd(e)
  \/ WatchBegin
  \/ \E e \in inflight : WatchEnd(e)
  \/ WatchPoll(now)

SpecRace == Init /\ [][NextRace]_vars

\* ---- the watch loop between its look at the run and its resume ------------------
\* an iteration of _run_watch_loop from app.get_state to the match of
\* detected_role with the role of the snapshot: the loop holds the data of
\* outbox/{role}.json and has not yet called app.invoke
WatchRead ==
  /\ watching # None
  /\ resumes < MaxResume
  /\ Pending(store[watching])
  /\ \A e \in inflight : e.driver # "watch"
  /\ LET role == WaitingRole(store[watching])
         chk == check_once(known, outbox)
     IN /\ role \in chk.results
        /\ known' = chk.known
        /\ polled' = PolledAfter(chk, role)
        /\ inflight' = inflight \cup
             {[driver |-> "watch", tid |-> watching, ck |-> store[watching], v |-> outbox[role]]}
  /\ resumes' = resumes + 1
  /\ UNCHANGED <<store, twin, yaml, yamlOrder, lock, outbox, inbox, task_md, history,
                 watching, now, goes, planned, lastOp, registry, ctl, decVars>>

\* app.invoke(Command(resume=data), config) of the watch loop: the engine loads
\* the checkpoint the thread has now and resumes it with the data the loop
\* holds; on a thread without a pending interrupt no node runs
WatchInvoke(e) ==
  /\ e \in inflight /\ e.driver = "watch"
  /\ inflight' = inflight \ {e}
  /\ LET ck == store[e.tid]
         res == IF Pending(ck) THEN invoke_resume(ck, e.tid, e.v, now, Files)
                ELSE [ck |-> ck, files |-> Files, nodes |-> <<>>, raise |-> None]
     IN /\ lastOp' = Op("watch-resume", e.tid, res, e.v, ck, now)
        /\ planned' = IF res.raise = None /\ \E i \in DOMAIN res.nodes : res.nodes[i] = "plan"
                        THEN [planned EXCEPT ![e.tid] = now] ELSE planned
        /\ IF res.raise # None
             THEN /\ lock' = None
                  /\ SetFiles(clear_runtime(Files))
                  /\ yaml' = [yaml EXCEPT ![e.tid] = "failed"]
                  /\ yamlOrder' = Touched(yamlOrder, e.tid)
                  /\ watching' = None
                  /\ known' = [r \in Roles |-> FALSE]
                  /\ polled' = NoPolled
                  /\ store' = store
             ELSE /\ store' = [store EXCEPT ![e.tid] = res.ck]
                  /\ SetFiles(res.files)
                  /\ UNCHANGED <<lock, yaml, yamlOrder, watching, known, polled>>
  /\ UNCHANGED <<twin, now, goes, resumes, registry, ctl, decVars>>

\* a run watched by ma go while ma done (reading the outbox) is run from
\* another terminal between two steps of the loop
NextDeliver ==
  \/ \E tid \in TaskIds, budget \in RetryBudgets : Go(tid, budget, 0, <<"", "">>, FALSE)
  \/ \E role \in Roles, v \in Values : ActorWrite(role, v)
  \/ \E tid \in TaskIds : Done(tid, NoneVal, now)
  \/ WatchRead
  \/ \E e \in inflight : WatchInvoke(e)
  \/ WatchPoll(now)

SpecDeliver == Init /\ [][NextDeliver]_vars

\* ---- driver.py: CLI agents spawned in background threads -------------------------
\* the output a CLI agent produces for the prompt of attempt k (k is the
\* retry_count of the prompt it was spawned for; the orchestrator does not read it)
BuilderAnswer(k) == [status |-> "completed", summary |-> "x", attempt |-> k]
ReviewerAnswers(k) ==
  {[decision |-> "approve", summary |-> "LGTM", attempt |-> k],
   [decision |-> "reject", feedback |-> "fix tests", attempt |-> k]}
CliAnswers(role, k) == IF role = "reviewer" THEN ReviewerAnswers(k) ELSE {BuilderAnswer(k)}
\* _write_error: the marker the thread writes when the CLI times out
CliError(k) == [status |-> "error", summary |-> "CLI timed out", attempt |-> k]

\* the threads of spawn_cli_agent that have not ended
CliThreads == {e \in inflight : e.driver = "cli"}

\* spawn_cli_agent(agent, role, command, timeout_sec), called by _show_waiting
\* and by the watch loop for the role the run now waits for: a daemon thread
\* runs the command; v is what the command will produce
SpawnCli(role, v) ==
  /\ watching # None /\ Pending(store[watching])
  /\ role = WaitingRole(store[watching])
  /\ v \in CliAnswers(role, store[watching].vals.retry_count)
  /\ \A e \in CliThreads :
       ~(e.role = role /\ e.ck.vals.retry_count = store[watching].vals.retry_count)
  /\ inflight' = inflight \cup
       {[driver |-> "cli", tid |-> watching, ck |-> store[watching], v |-> v, role |-> role,
         wrote |-> FALSE]}
  /\ UNCHANGED <<store, twin, yaml, yamlOrder, lock, outbox, inbox, task_md, history,
                 watching, known, now, goes, resumes, planned, lastOp, registry, ctl, polled,
                 decVars>>

\* the command writes outbox/{role}.json itself, once, and keeps running
CliToolWrites(e) ==
  /\ e \in CliThreads /\ ~e.wrote
  /\ inflight' = (inflight \ {e}) \cup {[e EXCEPT !.wrote = TRUE]}
  /\ outbox' = [outbox EXCEPT ![e.role] = e.v]
  /\ known' = [known EXCEPT ![e.role] = FALSE]
  /\ polled' = [polled EXCEPT ![e.role] = NoPolled[e.role]]
  /\ UNCHANGED <<store, twin, yaml, yamlOrder, lock, inbox, task_md, history,
                 watching, now, goes, resumes, planned, lastOp, registry, ctl, decVars>>

\* subprocess.run returns: when outbox/{role}.json does not exist and stdout
\* holds a JSON object (in_stdout), the thread writes that object to the file
CliExit(e, in_stdout) ==
  /\ e \in CliThreads
  /\ inflight' = inflight \ {e}
  /\ IF outbox[e.role] = NoneVal /\ in_stdout
       THEN /\ outbox' = [outbox EXCEPT ![e.role] = e.v]
            /\ known' = [known EXCEPT ![e.role] = FALSE]
            /\ polled' = [polled EXCEPT ![e.role] = NoPolled[e.role]]
       ELSE UNCHANGED <<outbox, known, polled>>
  /\ UNCHANGED <<store, twin, yaml, yamlOrder, lock, inbox, task_md, history,
                 watching, now, goes, resumes, planned, lastOp, registry, ctl, decVars>>

\* subprocess.TimeoutExpired: the thread writes the error marker to
\* outbox/{role}.json
CliTimeout(e) ==
  /\ e \in CliThreads
  /\ inflight' = inflight \ {e}
  /\ outbox' = [outbox EXCEPT ![e.role] = CliError(e.ck.vals.retry_count)]
  /\ known' = [known EXCEPT ![e.role] = FALSE]
  /\ polled' = [polled EXCEPT ![e.role] = NoPolled[e.role]]
  /\ UNCHANGED <<store, twin, yaml, yamlOrder, lock, inbox, task_md, history,
                 watching, now, goes, resumes, planned, lastOp, registry, ctl, decVars>>

\* a watched run with one retry whose builder is a CLI agent and whose reviewer
\* is an IDE assistant saving its decision when the run waits for it
NextStale ==
  \/ \E tid \in TaskIds : goes = 0 /\ Go(tid, 1, 0, <<"", "">>, FALSE)
  \/ \E k \in {0, 1} : SpawnCli("builder", BuilderAnswer(k))
  \/ \E v \in {RApprove, RReject} :
       /\ watching # None /\ store[watching].next = "review"
       /\ outbox["reviewer"] = NoneVal
       /\ OutboxWrite("reviewer", v)
  \/ \E e \in inflight : CliToolWrites(e)
  \/ \E e \in inflight, in_stdout \in BOOLEAN : CliExit(e, in_stdout)
  \/ \E e \in inflight : CliTimeout(e)
  \/ WatchPoll(now)

SpecStale == Init /\ [][NextStale]_vars

\* ---- two runs in one workspace ------------------------------------------------
TwoIds == {"task-a", "task-b"}
TwoValues == {BOk, RApprove}

InitTwo == StartOn(TwoIds) /\ registry = ShippedRegistry /\ ctl = NoCtl /\ NoDecomposition

\* the commands of two runs, interleaved in any order
NextTwo ==
  \/ \E tid \in TwoIds : Go(tid, MaxBudget, 0, <<"", "">>, TRUE)
  \/ \E tid \in TwoIds, given \in TwoValues : Done(tid, given, now)
  \/ \E tid \in TwoIds : Cancel(tid)

SpecTwo == InitTwo /\ [][NextTwo]_vars

\* ---- decompose.py: topo_sort ---------------------------------------------------
\* a sub-task of a decomposition: its id and the ordered list of its deps
SubTask(id, deps) == [id |-> id, deps |-> deps]

\* by_id = {st.id: st for st in sub_tasks}: a later sub-task with the same id
\* replaces an earlier one
by_id(sub_tasks) ==
  [i \in {sub_tasks[k].id : k \in DOMAIN sub_tasks} |->
     sub_tasks[CHOOSE k \in DOMAIN sub_tasks :
                 /\ sub_tasks[k].id = i
                 /\ \A j \in DOMAIN sub_tasks : sub_tasks[j].id = i => j <= k]]

\* the depth-first search before the first visit
NoVisit ==
  [visited |-> {}, visiting |-> {}, result |-> <<>>, raise |-> None,
   message |-> None, named |-> None]

RECURSIVE visit(_, _, _)
RECURSIVE visit_deps(_, _, _)
\* visit(task_id) on the search state st; a raised exception is carried in
\* st.raise and stops every later step
visit(tasks, task_id, st) ==
  IF st.raise # None THEN st
  ELSE IF task_id \in st.visited THEN st
  ELSE IF task_id \in st.visiting
    THEN [st EXCEPT !.raise = "ValueError", !.message = "Circular dependency detected",
                    !.named = task_id]
  ELSE IF task_id \notin DOMAIN tasks
    THEN [st EXCEPT !.visiting = @ \cup {task_id}, !.raise = "ValueError",
                    !.message = "Unknown dependency", !.named = task_id]
  ELSE LET s == visit_deps(tasks, tasks[task_id].deps,
                           [st EXCEPT !.visiting = @ \cup {task_id}])
       IN IF s.raise # None THEN s
          ELSE [s EXCEPT !.visiting = @ \ {task_id},
                         !.visited = @ \cup {task_id},
                         !.result = Append(@, tasks[task_id])]

\* for dep in task.deps: visit(dep)
visit_deps(tasks, deps, st) ==
  IF deps = <<>> THEN st
  ELSE visit_deps(tasks, Tail(deps), visit(tasks, Head(deps), st))

RECURSIVE visit_each(_, _, _)
\* for st in sub_tasks: visit(st.id)
visit_each(tasks, sub_tasks, st) ==
  IF sub_tasks = <<>> THEN st
  ELSE visit_each(tasks, Tail(sub_tasks), visit(tasks, Head(sub_tasks).id, st))

\* what the caller of topo_sort gets: the exception, or the returned list
Raised(s) == [raise |-> s.raise, message |-> s.message, named |-> s.named, result |-> <<>>]
Returned(s) == [raise |-> None, message |-> None, named |-> None, result |-> s.result]

\* a topo_sort that appends each sub-task in input order once the search found
\* no error
topo_sort_input_order(sub_tasks) ==
  LET s == visit_each(by_id(sub_tasks), sub_tasks, NoVisit)
  IN IF s.raise # None THEN Raised(s) ELSE Returned([s EXCEPT !.result = sub_tasks])

\* a topo_sort that gives back what it has sorted so far when it meets an
\* unknown dependency
topo_sort_partial(sub_tasks) ==
  LET s == visit_each(by_id(sub_tasks), sub_tasks, NoVisit)
  IN IF s.raise # None /\ s.message # "Unknown dependency" THEN Raised(s) ELSE Returned(s)

topo_sort(sub_tasks) ==
  LET s == visit_each(by_id(sub_tasks), sub_tasks, NoVisit)
  IN IF s.raise # None THEN Raised(s) ELSE Returned(s)

\* ---- the inputs of topo_sort ----------------------------------------------------
\* ids used in dependency graphs, and an id no sub-task has
GraphIds == {"a", "b", "c"}
UnknownId == "x"
DepIds == GraphIds \cup {UnknownId}

\* deps lists: none, one, or two different ids
DepLists ==
  {<<>>} \cup {<<d>> : d \in DepIds}
         \cup {l \in {<<d, e>> : d \in DepIds, e \in DepIds} : l[1] # l[2]}

SubTasks == {SubTask(i, deps) : i \in GraphIds, deps \in DepLists}

\* the ids of a list of sub-tasks; the list has no id twice
IdsOf(sub_tasks) == {sub_tasks[k].id : k \in DOMAIN sub_tasks}
DistinctIds(sub_tasks) == Cardinality(IdsOf(sub_tasks)) = Len(sub_tasks)

\* lists of one to three sub-tasks with pairwise different ids, in every order
ListsDistinct ==
  {<<s>> : s \in SubTasks}
    \cup {l \in {<<s, t>> : s \in SubTasks, t \in SubTasks} : DistinctIds(l)}
    \cup {l \in {<<s, t, v>> : s \in SubTasks, t \in SubTasks, v \in SubTasks} :
            DistinctIds(l)}

\* lists that hold the id a twice
ListsDuplicate ==
  {<<s, t>> : s \in {u \in SubTasks : u.id = "a"}, t \in {u \in SubTasks : u.id = "a"}}

\* the diamond a; b<-a; c<-a; d<-b,c in every input order
DiamondTasks ==
  {SubTask("a", <<>>), SubTask("b", <<"a">>), SubTask("c", <<"a">>),
   SubTask("d", <<"b", "c">>)}
Diamonds ==
  {l \in {<<s, t, v, w>> : s \in DiamondTasks, t \in DiamondTasks, v \in DiamondTasks,
                           w \in DiamondTasks} : DistinctIds(l)}

TopoInputs == ListsDistinct \cup ListsDuplicate \cup Diamonds

\* ---- cli.py: _run_decomposed, phase 2 -------------------------------------------
\* the decomposition actor has answered with a list of sub-tasks
InitTopo ==
  /\ StartOn({"task-a"}) /\ registry = ShippedRegistry /\ ctl = NoCtl
  /\ decompose_result \in {[sub_tasks |-> l] : l \in TopoInputs}
  /\ sorted_tasks = NoneVal /\ prior_results = <<>> /\ failed_ids = {}
  /\ dec = NoneVal /\ agg = NoneVal

\* sorted_tasks = topo_sort(decompose_result.sub_tasks)
TopoSort ==
  /\ decompose_result # NoneVal /\ sorted_tasks = NoneVal
  /\ sorted_tasks' = topo_sort(decompose_result.sub_tasks)
  /\ UNCHANGED <<store, twin, yaml, yamlOrder, lock, outbox, inbox, task_md, history,
                 watching, known, now, goes, resumes, planned, lastOp, registry, ctl, polled,
                 inflight, decompose_result, prior_results, failed_ids, dec, agg>>

NextTopo == TopoSort
SpecTopo == InitTopo /\ [][NextTopo]_vars

\* ---- meta_graph.py: aggregate_results --------------------------------------------
\* file names in sorted order
FileOrder == <<"a.py", "b.py", "c.py">>
FileNames == {FileOrder[k] : k \in DOMAIN FileOrder}
\* sorted(set(files))
sorted_set(files) ==
  SelectSeq(FileOrder, LAMBDA f : \E k \in DOMAIN files : files[k] = f)

RECURSIVE all_files(_)
\* all_files.extend(changed) for each result
all_files(sub_results) ==
  IF sub_results = <<>> THEN <<>>
  ELSE Get(Head(sub_results), "changed_files", <<>>) \o all_files(Tail(sub_results))

RECURSIVE total_retries(_)
\* total_retries += retries for each result
total_retries(sub_results) ==
  IF sub_results = <<>> THEN 0
  ELSE Get(Head(sub_results), "retry_count", 0) + total_retries(Tail(sub_results))

RECURSIVE failed_of(_, _)
\* failed.append(sub_id) for each result whose status is not in `passing`
failed_of(sub_results, passing) ==
  IF sub_results = <<>> THEN <<>>
  ELSE LET sr == Head(sub_results)
           rest == failed_of(Tail(sub_results), passing)
       IN IF Get(sr, "status", "unknown") \notin passing
            THEN <<Get(sr, "sub_id", "?")>> \o rest ELSE rest

Aggregate(parent_task_id, sub_results, failed) ==
  [task_id |-> parent_task_id,
   total_sub_tasks |-> Len(sub_results),
   completed |-> Len(sub_results) - Len(failed),
   failed |-> failed,
   total_retries |-> total_retries(sub_results),
   all_changed_files |-> sorted_set(all_files(sub_results)),
   final_status |-> IF failed # <<>> THEN "failed" ELSE "approved"]

\* an aggregate_results that lets only the status approved pass
aggregate_results_approved_only(parent_task_id, sub_results) ==
  Aggregate(parent_task_id, sub_results, failed_of(sub_results, {"approved"}))

aggregate_results(parent_task_id, sub_results) ==
  Aggregate(parent_task_id, sub_results, failed_of(sub_results, {"approved", "completed"}))

\* ---- the inputs of aggregate_results -----------------------------------------------
\* the statuses _run_decomposed records: final_status of the sub-run, "skipped",
\* "failed" (failed to start), "unknown" (no final_status)
SubStatuses == {"approved", "completed", "failed", "skipped", "escalated", "unknown"}
FileLists == {<<>>, <<"b.py">>, <<"b.py", "a.py">>, <<"c.py", "b.py", "c.py">>}
RetryCounts == {0, 1, 3}
SubResult(sub_id, status, changed_files, retry_count) ==
  [sub_id |-> sub_id, status |-> status, changed_files |-> changed_files,
   retry_count |-> retry_count]
\* results with every key, and results that lack keys
FullResults ==
  {SubResult(i, s, f, n) : i \in {"a", "b"}, s \in SubStatuses, f \in FileLists,
                           n \in RetryCounts}
SparseResults ==
  {EmptyDict, [sub_id |-> "a"], [status |-> "completed"], [sub_id |-> "b", retry_count |-> 1]}
SubResults == FullResults \cup SparseResults

\* the mixed list of four results, a passing and a failed one
MixedResults ==
  <<SubResult("a", "approved", <<>>, 0), SubResult("b", "skipped", <<>>, 0),
    SubResult("c", "completed", <<>>, 0), SubResult("d", "failed", <<>>, 3)>>

ResultLists ==
  {<<>>, MixedResults} \cup {<<r>> : r \in SubResults}
    \cup {<<r, s>> : r \in SubResults, s \in SubResults}

\* ---- cli.py: _run_decomposed, phase 4 -------------------------------------------
\* the sub-tasks have been run and their results collected
InitAggregate ==
  /\ StartOn({"task-a"}) /\ registry = ShippedRegistry /\ ctl = NoCtl
  /\ prior_results \in ResultLists
  /\ decompose_result = NoneVal /\ sorted_tasks = NoneVal /\ failed_ids = {}
  /\ dec = NoneVal /\ agg = NoneVal

\* agg = aggregate_results(parent_task_id, prior_results)
AggregateResults ==
  /\ agg = NoneVal
  /\ agg' = aggregate_results("task-a", prior_results)
  /\ UNCHANGED <<store, twin, yaml, yamlOrder, lock, outbox, inbox, task_md, history,
                 watching, known, now, goes, resumes, planned, lastOp, registry, ctl, polled,
                 inflight, decompose_result, sorted_tasks, prior_results, failed_ids, dec>>

NextAggregate == AggregateResults
SpecAggregate == InitAggregate /\ [][NextAggregate]_vars

\* ---- cli.py: ma go --decompose (_run_decomposed) ---------------------------------
\* the state build_sub_task_state hands to the graph of a sub-task
build_sub_task_state(builder, reviewer, timeout, retry_budget) ==
  [timeout_sec |-> timeout, retry_budget |-> retry_budget, retry_count |-> 0,
   builder_explicit |-> builder, reviewer_explicit |-> reviewer,
   conversation |-> <<>>]

\* the position of _run_decomposed: in the loop over sorted_tasks before
\* sub-task i ("loop"), in the watch loop of sub-task i ("watch"), returned after
\* the first sub-task of --no-watch ("returned"), exited on an invalid
\* decomposition ("exit"), or finished ("done")
DecAt(at) == "at" \in DOMAIN dec /\ dec.at = at
Position(at, i, pair, no_watch) == [at |-> at, i |-> i, pair |-> pair, no_watch |-> no_watch]

\* the sub-task the loop is at, and the id of its run
CurTask == sorted_tasks.result[dec.i]
CurRun == generate_sub_task_id("task-a", CurTask.id)

\* the result _run_decomposed records for a sub-task from the values of its run
collect(st, vals) ==
  LET builder_out == IF IsDict(vals.builder_output) THEN vals.builder_output ELSE EmptyDict
  IN SubResult(st.id,
               IF vals.final_status = None THEN "unknown" ELSE vals.final_status,
               Get(builder_out, "changed_files", <<>>),
               vals.retry_count)

\* the watch loop of the sub-task has returned: record the result of the
\* sub-task, and go on with the next sub-task
Collect(vals) ==
  LET sr == collect(CurTask, vals)
  IN /\ prior_results' = Append(prior_results, sr)
     /\ failed_ids' = IF sr.status \notin {"approved", "completed"}
                        THEN failed_ids \cup {CurTask.id} ELSE failed_ids
     /\ dec' = [dec EXCEPT !.at = "loop", !.i = @ + 1]

\* skipped_deps = [d for d in st.deps if d in failed_ids], and a loop that
\* finds no dependency failed
skipped_deps_none(deps, failed) == SelectSeq(deps, LAMBDA d : FALSE)
skipped_deps(deps, failed) == SelectSeq(deps, LAMBDA d : d \in failed)

\* the decompositions the actor answers with: two independent sub-tasks; a
\* chain with an independent sibling, given out of order; a cycle
DecInputs ==
  { <<SubTask("a", <<>>), SubTask("b", <<>>)>>,
    <<SubTask("c", <<"b">>), SubTask("b", <<"a">>), SubTask("a", <<>>), SubTask("d", <<>>)>>,
    <<SubTask("a", <<"b">>), SubTask("b", <<"a">>)>> }
\* the --builder / --reviewer options given to ma go --decompose
DecPairs == {<<"", "">>, <<"cursor", "cursor">>}
\* the values the actors of a sub-task save to the outbox
DecValues(role) == IF role = "reviewer" THEN {RApprove, RReject} ELSE {BOk, BNoSummary, BGateNonMap}

\* ma go REQUIREMENT --task-id task-a --decompose [--no-watch], up to the start
\* of the loop over the sorted sub-tasks: clears the runtime files, takes the
\* lock, marks the task active, reads the actor's decomposition and sorts it; an
\* invalid decomposition releases the lock and exits
GoDecompose(l, pair, no_watch) ==
  /\ dec = NoneVal /\ lock = None
  /\ LET sorted == topo_sort(l)
     IN /\ decompose_result' = [sub_tasks |-> l]
        /\ sorted_tasks' = sorted
        /\ SetFiles(clear_runtime(Files))
        /\ yaml' = [yaml EXCEPT !["task-a"] = "active"]
        /\ yamlOrder' = Touched(yamlOrder, "task-a")
        /\ lock' = IF sorted.raise # None THEN None ELSE "task-a"
        /\ dec' = Position(IF sorted.raise # None THEN "exit" ELSE "loop", 1, pair, no_watch)
        /\ prior_results' = <<>> /\ failed_ids' = {}
  /\ UNCHANGED <<store, twin, watching, known, now, goes, resumes, planned, lastOp,
                 registry, ctl, polled, inflight, agg>>

\* one pass of the loop up to the watch loop: a sub-task with a failed
\* dependency is recorded as skipped; else the runtime files are cleared and the
\* run of the sub-task is started; a run that fails to start is recorded as
\* failed; with --no-watch the command returns after the first started run
SubStart ==
  /\ DecAt("loop") /\ dec.i <= Len(sorted_tasks.result)
  /\ LET st == CurTask
         skipped == skipped_deps(st.deps, failed_ids)
         sub_state == build_sub_task_state(dec.pair[1], dec.pair[2], 0, 0)
         res == invoke_input(store[CurRun], sub_state, now, clear_runtime(Files))
     IN IF skipped # <<>>
          THEN /\ prior_results' = Append(prior_results, SubResult(st.id, "skipped", <<>>, 0))
               /\ failed_ids' = failed_ids \cup {st.id}
               /\ dec' = [dec EXCEPT !.i = @ + 1]
               /\ UNCHANGED <<store, yaml, yamlOrder, outbox, inbox, task_md, history,
                              known, planned, lastOp, polled>>
          ELSE /\ store' = [store EXCEPT ![CurRun] = res.ck]
               /\ SetFiles(res.files)
               /\ lastOp' = Op("sub-go", CurRun, res, NoneVal, store[CurRun], now)
               /\ IF res.raise # None
                    THEN /\ prior_results' = Append(prior_results,
                                                    SubResult(st.id, "failed", <<>>, 0))
                         /\ failed_ids' = failed_ids \cup {st.id}
                         /\ dec' = [dec EXCEPT !.i = @ + 1]
                         /\ UNCHANGED <<yaml, yamlOrder, known, planned, polled>>
                  ELSE IF dec.no_watch
                    THEN /\ yaml' = [yaml EXCEPT !["task-a"] = "decomposed"]
                         /\ yamlOrder' = Touched(yamlOrder, "task-a")
                         /\ dec' = [dec EXCEPT !.at = "returned"]
                         /\ planned' = [planned EXCEPT ![CurRun] = now]
                         /\ UNCHANGED <<prior_results, failed_ids, known, polled>>
                  ELSE /\ dec' = [dec EXCEPT !.at = "watch"]
                       /\ known' = [r \in Roles |-> FALSE]
                       /\ polled' = NoPolled
                       /\ planned' = [planned EXCEPT ![CurRun] = now]
                       /\ UNCHANGED <<prior_results, failed_ids, yaml, yamlOrder>>
  /\ UNCHANGED <<twin, lock, watching, now, goes, resumes, registry, ctl, inflight,
                 decompose_result, sorted_tasks, agg>>

\* an actor of the running sub-task saves its output to outbox/{role}.json
SubActorWrite(role, v) ==
  /\ DecAt("watch") /\ Pending(store[CurRun])
  /\ role = WaitingRole(store[CurRun])
  /\ v \in DecValues(role)
  /\ outbox[role] = NoneVal
  /\ outbox' = [outbox EXCEPT ![role] = v]
  /\ known' = [known EXCEPT ![role] = FALSE]
  /\ polled' = [polled EXCEPT ![role] = NoPolled[role]]
  /\ UNCHANGED <<store, twin, yaml, yamlOrder, lock, inbox, task_md, history,
                 watching, now, goes, resumes, planned, lastOp, registry, ctl, inflight, decVars>>

\* one iteration of _run_watch_loop(app, sub_config, sub_task_id,
\* manage_lock=False): returns when the run of the sub-task has ended, else
\* polls the outbox once and resumes the run with the output of the awaited
\* role; a resume that raises marks the sub-task failed and returns.  When the
\* loop returns, _run_decomposed records the result and goes on.
SubWatchPoll ==
  /\ DecAt("watch")
  /\ LET tid == CurRun
         ck == store[tid]
         final == ck.vals.final_status
         role == WaitingRole(ck)
         chk == check_once(known, outbox)
         res == invoke_resume(ck, tid, outbox[role], now, Files)
     IN IF ~Pending(ck)
          THEN /\ IF Truthy(final)
                    THEN /\ yaml' = [yaml EXCEPT ![tid] = final]
                         /\ yamlOrder' = Touched(yamlOrder, tid)
                    ELSE UNCHANGED <<yaml, yamlOrder>>
               /\ Collect(ck.vals)
               /\ UNCHANGED <<store, outbox, inbox, task_md, history, known, polled,
                              planned, lastOp>>
        ELSE IF role \notin chk.results
          THEN /\ known' = chk.known
               /\ polled' = PolledAfter(chk, None)
               /\ <<known', polled'>> # <<known, polled>>
               /\ UNCHANGED <<store, yaml, yamlOrder, outbox, inbox, task_md, history,
                              planned, lastOp, prior_results, failed_ids, dec>>
        ELSE /\ lastOp' = Op("sub-resume", tid, res, outbox[role], ck, now)
             /\ planned' = IF res.raise = None /\ \E i \in DOMAIN res.nodes : res.nodes[i] = "plan"
                             THEN [planned EXCEPT ![tid] = now] ELSE planned
             /\ known' = chk.known
             /\ polled' = PolledAfter(chk, role)
             /\ IF res.raise # None
                  THEN /\ yaml' = [yaml EXCEPT ![tid] = "failed"]
                       /\ yamlOrder' = Touched(yamlOrder, tid)
                       /\ Collect(ck.vals)
                       /\ UNCHANGED <<store, outbox, inbox, task_md, history>>
                  ELSE /\ store' = [store EXCEPT ![tid] = res.ck]
                       /\ SetFiles(res.files)
                       /\ UNCHANGED <<yaml, yamlOrder, prior_results, failed_ids, dec>>
  /\ UNCHANGED <<twin, lock, watching, now, goes, resumes, registry, ctl, inflight,
                 decompose_result, sorted_tasks, agg>>

\* Ctrl-C in the watch loop of a sub-task: _run_watch_loop catches the
\* KeyboardInterrupt and returns, and _run_decomposed records the result of the
\* sub-task and goes on with the next one
SubInterrupt ==
  /\ DecAt("watch")
  /\ Collect(store[CurRun].vals)
  /\ UNCHANGED <<store, twin, yaml, yamlOrder, lock, outbox, inbox, task_md, history,
                 watching, known, now, goes, resumes, planned, lastOp, registry, ctl, polled,
                 inflight, decompose_result, sorted_tasks, agg>>

\* after the last sub-task: aggregate the results, save the aggregate status
\* to the yaml of the parent task, release the lock, clear the runtime files
DecAggregate ==
  /\ DecAt("loop") /\ dec.i > Len(sorted_tasks.result)
  /\ agg' = aggregate_results("task-a", prior_results)
  /\ yaml' = [yaml EXCEPT !["task-a"] = agg'.final_status]
  /\ yamlOrder' = Touched(yamlOrder, "task-a")
  /\ lock' = None
  /\ SetFiles(clear_runtime(Files))
  /\ dec' = [dec EXCEPT !.at = "done"]
  /\ UNCHANGED <<store, twin, watching, known, now, goes, resumes, planned, lastOp,
                 registry, ctl, polled, inflight, decompose_result, sorted_tasks,
                 prior_results, failed_ids>>

InitDecomposed ==
  StartOn({"task-a"} \cup SubRunIds) /\ registry = ShippedRegistry /\ ctl = NoCtl /\ NoDecomposition

NextDecomposed ==
  \/ \E l \in DecInputs, pair \in DecPairs, no_watch \in BOOLEAN : GoDecompose(l, pair, no_watch)
  \/ SubStart
  \/ \E role \in Roles, v \in Values : SubActorWrite(role, v)
  \/ SubWatchPoll
  \/ SubInterrupt
  \/ DecAggregate

SpecDecomposed == InitDecomposed /\ [][NextDecomposed]_vars

\* ---- damaged persisted state ---------------------------------------------------
\* a checkpoint whose row of store.db cannot be read back
CorruptCkpt == [next |-> "CORRUPT", vals |-> BlankVals, marker |-> NoMarker]

\* what a command printed before it ended without running a node
Report(op, tid, message) ==
  [Op(op, tid, NoRun, NoneVal, store[tid], now) EXCEPT !.raise = message]
NotFoundReports ==
  {"No active task found", "No active task to watch", "No active tasks"}

\* tasks/{tid}.yaml is damaged (cut short while it was written, or edited): its
\* text is no longer a YAML mapping
YamlDamaged(tid) ==
  /\ yaml[tid] \notin {"none", "corrupt"}
  /\ yaml' = [yaml EXCEPT ![tid] = "corrupt"]
  /\ UNCHANGED <<store, twin, yamlOrder, lock, outbox, inbox, task_md, history,
                 watching, known, now, goes, resumes, planned, lastOp, registry, ctl, polled,
                 inflight, decVars>>

\* the checkpoint rows of the thread in store.db are damaged
StoreDamaged(tid) ==
  /\ Pending(store[tid])
  /\ store' = [store EXCEPT ![tid] = CorruptCkpt]
  /\ UNCHANGED <<twin, yaml, yamlOrder, lock, outbox, inbox, task_md, history,
                 watching, known, now, goes, resumes, planned, lastOp, registry, ctl, polled,
                 inflight, decVars>>

\* ma done / ma watch / ma status without --task-id, up to the first look at the
\* checkpoint: _detect_active_task skips every yaml it cannot parse; without a
\* detected task the command reports that there is no active task; app.get_state
\* on damaged rows raises out of the command
DetectOnly(cmd) ==
  LET task_id == detect_active_task
      t == IF lock # None THEN lock ELSE "task-a"
  IN /\ cmd \in {"done", "watch", "status"}
     /\ \/ /\ task_id = None
           /\ lastOp' = Report(cmd, t,
                               IF cmd = "done" THEN "No active task found"
                               ELSE IF cmd = "watch" THEN "No active task to watch"
                               ELSE "No active tasks")
        \/ /\ task_id # None /\ store[task_id] = CorruptCkpt
           /\ lastOp' = Report(cmd, task_id, "DatabaseError")
     /\ lastOp' # lastOp
     /\ UNCHANGED <<store, twin, yaml, yamlOrder, lock, outbox, inbox, task_md, history,
                    watching, known, now, goes, resumes, planned, registry, ctl, polled,
                    inflight, decVars>>

\* ma done --task-id tid --file given on a thread whose rows are damaged:
\* app.get_state raises
DoneOnDamaged(tid) ==
  /\ store[tid] = CorruptCkpt
  /\ lastOp' = Report("done", tid, "DatabaseError")
  /\ lastOp' # lastOp
  /\ UNCHANGED <<store, twin, yaml, yamlOrder, lock, outbox, inbox, task_md, history,
                 watching, known, now, goes, resumes, planned, registry, ctl, polled,
                 inflight, decVars>>

NextCorrupt ==
  \/ \E tid \in TaskIds, budget \in RetryBudgets : Go(tid, budget, 0, <<"", "">>, TRUE)
  \/ \E tid \in TaskIds : YamlDamaged(tid)
  \/ \E tid \in TaskIds : StoreDamaged(tid)
  \/ \E cmd \in {"done", "watch", "status"} : DetectOnly(cmd)
  \/ \E tid \in TaskIds : DoneOnDamaged(tid)
  \/ \E given \in DriverValues \cup {RApprove} :
       /\ detect_active_task # None /\ store[detect_active_task] # CorruptCkpt
       /\ Done(None, given, now)

SpecCorrupt == Init /\ [][NextCorrupt]_vars

\* ---- two ma go commands at the same time -----------------------------------------
\* ma go --task-id tid --no-watch up to the check of the lock: read_lock()
\* returned None and the command goes on
GoCheck(tid) ==
  /\ goes < MaxGo
  /\ lock = None
  /\ store[tid].next = "NONE"
  /\ \A e \in inflight : e.tid # tid
  /\ inflight' = inflight \cup {[driver |-> "go", tid |-> tid, ck |-> store[tid], v |-> NoneVal]}
  /\ goes' = goes + 1
  /\ UNCHANGED <<store, twin, yaml, yamlOrder, lock, outbox, inbox, task_md, history,
                 watching, known, now, resumes, planned, lastOp, registry, ctl, polled, decVars>>

\* ma go with a lock held: prints the error and exits
GoRefused(tid) ==
  /\ lock # None
  /\ lastOp' = Report("go", tid, "locked")
  /\ lastOp' # lastOp
  /\ UNCHANGED <<store, twin, yaml, yamlOrder, lock, outbox, inbox, task_md, history,
                 watching, known, now, goes, resumes, planned, registry, ctl, polled,
                 inflight, decVars>>

\* the rest of ma go --no-watch: clear_runtime(), acquire_lock(task_id), the graph
\* runs to its first suspension, the task yaml is saved as active
GoStart(e, budget) ==
  /\ e \in inflight /\ e.driver = "go"
  /\ inflight' = inflight \ {e}
  /\ LET input == initial_state(budget, 0, "", "")
         res == invoke_input(store[e.tid], input, now, clear_runtime(Files))
     IN /\ res.raise = None
        /\ store' = AfterExit([store EXCEPT ![e.tid] = res.ck])
        /\ twin' = [twin EXCEPT ![e.tid] = res.ck]
        /\ SetFiles(res.files)
        /\ lastOp' = Op("go", e.tid, res, NoneVal, store[e.tid], now)
        /\ lock' = e.tid
        /\ yaml' = [yaml EXCEPT ![e.tid] = "active"]
        /\ yamlOrder' = Touched(yamlOrder, e.tid)
        /\ planned' = [planned EXCEPT ![e.tid] = now]
  /\ UNCHANGED <<watching, known, now, goes, resumes, registry, ctl, polled, decVars>>

\* ma go invoked from two terminals, each with its own task id, followed by ma done
NextGoRace ==
  \/ \E tid \in TwoIds : GoCheck(tid)
  \/ \E tid \in TwoIds : GoRefused(tid)
  \/ \E e \in inflight, budget \in RetryBudgets : GoStart(e, budget)
  \/ \E tid \in TwoIds, given \in TwoValues : Done(tid, given, now)

SpecGoRace == InitTwo /\ [][NextGoRace]_vars

\* ---- one run, resumed for ever -----------------------------------------------------
\* ma done --task-id tid --file given, any number of times: resumes only
\* tells one resume from the next
Resume(tid, given, t) ==
  /\ resumes' = (resumes + 1) % 2
  /\ done(tid, given, t)

\* a resume with some value: an approval, or any other value
ResumeSome ==
  \E tid \in TaskIds, t \in Times :
    \/ Resume(tid, RApprove, t)
    \/ \E given \in Values \ {RApprove} : Resume(tid, given, t)

\* a single ma go --no-watch, then resumes
NextLive ==
  \/ \E tid \in TaskIds, budget \in {0, 1}, timeout \in Timeouts :
       goes = 0 /\ Go(tid, budget, timeout, <<"", "">>, TRUE)
  \/ ResumeSome

\* every suspension is eventually resumed with some value
SpecLive == Init /\ [][NextLive]_vars /\ WF_vars(ResumeSome)

\* ---- scripts/lockctl.py: the table of file locks -----------------------------------
\* the variables of the orchestrator, which the helper scripts leave alone
maVars == <<store, twin, yaml, yamlOrder, lock, outbox, inbox, task_md, history,
            watching, known, goes, planned, lastOp, registry, polled, inflight, decVars>>

\* the paths and the lifetimes given with --file-path and --ttl-sec
FilePaths == {"a.py", "b.py"}
TtlSecs == {1, 2}

\* a row of the table locks
LockRow(file_path, owner_task, lock_version, created_at, renewed_at, expires_at) ==
  [file_path |-> file_path, owner_task |-> owner_task, lock_version |-> lock_version,
   created_at |-> created_at, renewed_at |-> renewed_at, expires_at |-> expires_at]

\* cleanup_expired keeping the rows that expire at now_ts
cleanup_expired_strict(locks, now_ts) == {r \in locks : ~(r.expires_at < now_ts)}

\* DELETE FROM locks WHERE expires_at <= now_ts
cleanup_expired(locks, now_ts) == {r \in locks : ~(r.expires_at <= now_ts)}

\* SELECT * FROM locks WHERE file_path = ?
SelectLock(locks, file_path) == {r \in locks : r.file_path = file_path}

\* UPDATE locks SET lock_version, renewed_at, expires_at WHERE file_path AND owner_task
UpdateLock(locks, file_path, task_id, version, now_ts, expires_at) ==
  {IF r.file_path = file_path /\ r.owner_task = task_id
     THEN [r EXCEPT !.lock_version = version, !.renewed_at = now_ts,
                    !.expires_at = expires_at]
     ELSE r : r \in locks}

\* what a command prints and the table it leaves
LockResult(status, lock_version, locks) ==
  [status |-> status, lock_version |-> lock_version, locks |-> locks]

\* command_acquire: one transaction, rolled back when the lock is blocked
command_acquire(locks, task_id, file_path, ttl_sec, now_ts) ==
  LET expires_at == now_ts + ttl_sec
      live == cleanup_expired(locks, now_ts)
      rows == SelectLock(live, file_path)
      row == CHOOSE r \in rows : TRUE
  IN IF rows = {}
       THEN LockResult("acquired", 1,
              live \cup {LockRow(file_path, task_id, 1, now_ts, now_ts, expires_at)})
     ELSE IF row.owner_task = task_id
       THEN LockResult("renewed_by_owner", row.lock_version + 1,
              UpdateLock(live, file_path, task_id, row.lock_version + 1, now_ts, expires_at))
     ELSE LockResult("blocked", 0, locks)

\* command_renew
command_renew(locks, task_id, file_path, ttl_sec, now_ts) ==
  LET expires_at == now_ts + ttl_sec
      live == cleanup_expired(locks, now_ts)
      rows == SelectLock(live, file_path)
      row == CHOOSE r \in rows : TRUE
  IN IF rows = {} THEN LockResult("ERROR: lock not found", 0, locks)
     ELSE IF row.owner_task # task_id
       THEN LockResult("ERROR: lock is owned by another task", 0, locks)
     ELSE LockResult("renewed", row.lock_version + 1,
            UpdateLock(live, file_path, task_id, row.lock_version + 1, now_ts, expires_at))

\* command_release
command_release(locks, task_id, file_path, now_ts) ==
  LET live == cleanup_expired(locks, now_ts)
      rows == SelectLock(live, file_path)
      row == CHOOSE r \in rows : TRUE
  IN IF rows = {} THEN LockResult("ERROR: lock not found", 0, locks)
     ELSE IF row.owner_task # task_id
       THEN LockResult("ERROR: lock is owned by another task", 0, locks)
     ELSE LockResult("released", 0,
            {r \in live : ~(r.file_path = file_path /\ r.owner_task = task_id)})

\* the command that ran last, the table it found and what it printed
LockCmd(command, task_id, file_path, at, before, res) ==
  [command |-> command, task_id |-> task_id, file_path |-> file_path, at |-> at,
   before |-> before, status |-> res.status, lock_version |-> res.lock_version]

\* one run of lockctl.py; resumes counts the commands of a behaviour
Lockctl(command, task_id, file_path, ttl_sec) ==
  /\ resumes < MaxResume
  /\ resumes' = resumes + 1
  /\ LET res == IF command = "acquire"
                  THEN command_acquire(ctl.locks, task_id, file_path, ttl_sec, now)
                ELSE IF command = "renew"
                  THEN command_renew(ctl.locks, task_id, file_path, ttl_sec, now)
                ELSE command_release(ctl.locks, task_id, file_path, now)
     IN ctl' = [locks |-> res.locks,
                last |-> LockCmd(command, task_id, file_path, now, ctl.locks, res)]
  /\ UNCHANGED <<maVars, now>>

\* a second of time.time() goes by
ClockTick ==
  /\ now < MaxTime
  /\ now' = now + 1
  /\ UNCHANGED <<maVars, resumes, ctl>>

InitLockctl ==
  /\ StartOn({"task-a"}) /\ registry = ShippedRegistry /\ NoDecomposition
  /\ ctl = [locks |-> {},
            last |-> LockCmd("none", None, None, 1, {}, LockResult("none", 0, {}))]

NextLockctl ==
  \/ \E task_id \in TwoIds, file_path \in FilePaths, ttl_sec \in TtlSecs :
       Lockctl("acquire", task_id, file_path, ttl_sec)
  \/ \E task_id \in TwoIds, file_path \in FilePaths, ttl_sec \in TtlSecs :
       Lockctl("renew", task_id, file_path, ttl_sec)
  \/ \E task_id \in TwoIds, file_path \in FilePaths :
       Lockctl("release", task_id, file_path, 1)
  \/ ClockTick

SpecLockctl == InitLockctl /\ [][NextLockctl]_vars

\* ---- scripts/mvp_ctl.py: the lifecycle of a task file ------------------------------
STATE_TRANSITIONS ==
  [DRAFT |-> {"QUEUED", "CANCELLED"},
   QUEUED |-> {"ASSIGNED", "CANCELLED"},
   ASSIGNED |-> {"RUNNING", "FAILED", "CANCELLED"},
   RUNNING |-> {"VERIFYING", "FAILED", "RETRY", "ESCALATED", "CANCELLED"},
   VERIFYING |-> {"APPROVED", "FAILED", "RETRY", "ESCALATED", "CANCELLED"},
   APPROVED |-> {"MERGED", "FAILED"},
   MERGED |-> {"DONE"},
   FAILED |-> {"RETRY", "ESCALATED", "CANCELLED"},
   RETRY |-> {"QUEUED", "ASSIGNED"},
   ESCALATED |-> {"ASSIGNED", "CANCELLED"},
   DONE |-> {},
   CANCELLED |-> {}]

\* the task JSON: its state, its error (NoneVal: no such key), the time of its
\* last change, and whether the other fields are as validate_task wants them
TaskFile(state, error, updated_at, fields) ==
  [task_id |-> "task-a", state |-> state, error |-> error, updated_at |-> updated_at,
   owner |-> None, consumer |-> "codex", fields |-> fields]

\* the task files a command can find: every state and one that is none, with and
\* without an error, with an error that lacks its message, with an unknown field
TaskErrors == {NoneVal, [code |-> "E1", message |-> "boom"], [code |-> "E1"]}
TaskFiles ==
  {TaskFile(s, e, 1, f) : s \in DOMAIN STATE_TRANSITIONS \cup {"PAUSED"},
                          e \in TaskErrors, f \in {"ok", "unknown field"}}
\* --to-state, --error-code and --error-message
ToStates == DOMAIN STATE_TRANSITIONS \cup {"PAUSED"}
ErrorCodes == {None, "E1"}

\* validate_task(task) returns no error
ValidTask(task) ==
  /\ task.fields = "ok"
  /\ task.state \in DOMAIN STATE_TRANSITIONS
  /\ task.error # NoneVal => DOMAIN task.error = {"code", "message"}

\* what apply_transition leaves: the task file, the audit log, the exception raised
Transitioned(task, audit, raised) == [task |-> task, audit |-> audit, raise |-> raised]

\* apply_transition keeping the error of a task that leaves FAILED
apply_transition_keeps_error(task, to_state, actor, error_code, error_message, audit, at) ==
  IF ~ValidTask(task) THEN Transitioned(task, audit, "ValueError: task is invalid")
  ELSE IF to_state \notin STATE_TRANSITIONS[task.state]
    THEN Transitioned(task, audit, "ValueError: invalid transition")
  ELSE Transitioned(
         [task EXCEPT !.state = to_state, !.updated_at = at,
                      !.error = IF to_state = "FAILED"
                                  THEN [code |-> IF error_code # None THEN error_code ELSE "UNKNOWN",
                                        message |-> IF error_message # None THEN error_message
                                                    ELSE "task failed"]
                                  ELSE task.error],
         Append(audit, [event |-> "state_transition", task_id |-> task.task_id, actor |-> actor,
                        from |-> task.state, to |-> to_state, at |-> at]),
         None)

\* apply_transition
apply_transition(task, to_state, actor, error_code, error_message, audit, at) ==
  IF ~ValidTask(task) THEN Transitioned(task, audit, "ValueError: task is invalid")
  ELSE IF to_state \notin STATE_TRANSITIONS[task.state]
    THEN Transitioned(task, audit, "ValueError: invalid transition")
  ELSE Transitioned(
         [task EXCEPT !.state = to_state, !.updated_at = at,
                      !.error = IF to_state = "FAILED"
                                  THEN [code |-> IF error_code # None THEN error_code ELSE "UNKNOWN",
                                        message |-> IF error_message # None THEN error_message
                                                    ELSE "task failed"]
                                  ELSE NoneVal],
         Append(audit, [event |-> "state_transition", task_id |-> task.task_id, actor |-> actor,
                        from |-> task.state, to |-> to_state, at |-> at]),
         None)

\* mvp_ctl.py transition --task --to-state [--error-code] [--error-message]
Transition(to_state, error_code) ==
  /\ resumes < MaxResume
  /\ resumes' = resumes + 1
  /\ LET res == apply_transition(ctl.task, to_state, "orchestrator", error_code, None,
                                 ctl.audit, now)
     IN ctl' = [task |-> res.task, audit |-> res.audit,
                last |-> [to |-> to_state, raise |-> res.raise,
                          task |-> ctl.task, audit |-> ctl.audit]]
  /\ UNCHANGED <<maVars, now>>

InitMvp ==
  /\ StartOn({"task-a"}) /\ registry = ShippedRegistry /\ NoDecomposition
  /\ \E task \in TaskFiles :
       ctl = [task |-> task, audit |-> <<>>,
              last |-> [to |-> None, raise |-> "none", task |-> task, audit |-> <<>>]]

NextMvp ==
  \/ \E to_state \in ToStates, error_code \in ErrorCodes : Transition(to_state, error_code)
  \/ ClockTick

SpecMvp == InitMvp /\ [][NextMvp]_vars

\* ---- scripts/workmode_ctl.py, scripts/ide_hub.py: progress by events ---------------
\* an entry of config.events
Event(from, to, next_role) == [from |-> from, to |-> to, next_role |-> next_role]

\* config.events as the hints of next_action name them
StandardEvents ==
  [builder_start |-> Event("ASSIGNED", "RUNNING", "builder"),
   builder_done |-> Event("RUNNING", "VERIFYING", "reviewer"),
   review_pass |-> Event("VERIFYING", "APPROVED", "orchestrator"),
   review_fail |-> Event("VERIFYING", "RETRY", "builder"),
   retry_dispatch |-> Event("RETRY", "ASSIGNED", "builder")]

\* the event maps validate_config accepts (it asks for the three fields only):
\* the standard one, one that hands an approved task to a role no mode
\* declares, one whose builder_done asks for an edge STATE_TRANSITIONS lacks
EventMaps ==
  {StandardEvents,
   [StandardEvents EXCEPT !.review_pass = Event("VERIFYING", "APPROVED", "merger")],
   [StandardEvents EXCEPT !.builder_done = Event("RUNNING", "DONE", "orchestrator")]}

\* the events a command is given
EventNames == DOMAIN StandardEvents \cup {"deploy"}

\* modes.<mode>.roles, copied to the session by build_session
SessionRoles == [orchestrator |-> "codex", builder |-> "windsurf", reviewer |-> "antigravity"]

\* the session file
Session(current_role, updated_at) ==
  [roles |-> SessionRoles, current_role |-> current_role,
   current_agent |-> SessionRoles[current_role], updated_at |-> updated_at]

\* what the files hold after an operation, and the exception it raised
Progressed(task, audit, session, raised) ==
  [task |-> task, audit |-> audit, session |-> session, raise |-> raised]

\* transition_by_event on the task file, the audit log and the session file
transition_by_event(task, audit, session, events, event_name, actor, at) ==
  IF event_name \notin DOMAIN events
    THEN Progressed(task, audit, session, "ValueError: unknown event")
  ELSE IF ~ValidTask(task)
    THEN Progressed(task, audit, session, "ValueError: task is invalid")
  ELSE IF task.state # events[event_name].from
    THEN Progressed(task, audit, session, "ValueError: event requires state")
  ELSE
    LET event_cfg == events[event_name]
        updated == apply_transition(task, event_cfg.to, actor, None, None, audit, at)
    IN IF updated.raise # None
         THEN Progressed(updated.task, updated.audit, session, updated.raise)
       ELSE IF event_cfg.next_role \notin DOMAIN session.roles
         THEN Progressed(updated.task, updated.audit, session, "ValueError: unknown role")
       ELSE
         LET s == [session EXCEPT !.current_role = event_cfg.next_role,
                                  !.current_agent = session.roles[event_cfg.next_role],
                                  !.updated_at = at]
         IN Progressed([updated.task EXCEPT !.consumer = s.current_agent,
                                            !.owner = s.current_role],
                       updated.audit, s, None)

\* apply_event_chain: builder_done on an ASSIGNED task applies builder_start first
apply_event_chain(task, audit, session, events, event, actor, at) ==
  IF event = "builder_done" /\ task.state = "ASSIGNED"
    THEN LET first == transition_by_event(task, audit, session, events, "builder_start",
                                          actor, at)
         IN IF first.raise # None THEN first
            ELSE transition_by_event(first.task, first.audit, first.session, events, event,
                                     actor, at)
    ELSE transition_by_event(task, audit, session, events, event, actor, at)

\* the files after a command, with what the command found and was asked
AfterEvent(command, event, res) ==
  [events |-> ctl.events, task |-> res.task, audit |-> res.audit, session |-> res.session,
   last |-> [command |-> command, event |-> event, raise |-> res.raise,
             task |-> ctl.task, session |-> ctl.session]]

\* workmode_ctl.py auto-progress --event
AutoProgress(event) ==
  /\ resumes < MaxResume
  /\ resumes' = resumes + 1
  /\ ctl' = AfterEvent("auto-progress", event,
              transition_by_event(ctl.task, ctl.audit, ctl.session, ctl.events, event,
                                  "orchestrator", now))
  /\ UNCHANGED <<maVars, now>>

\* ide_hub.py submit --agent, with the event inferred from the handoff payload
HubSubmit(event) ==
  /\ resumes < MaxResume
  /\ resumes' = resumes + 1
  /\ ctl' = AfterEvent("submit", event,
              apply_event_chain(ctl.task, ctl.audit, ctl.session, ctl.events, event,
                                ctl.session.current_agent, now))
  /\ UNCHANGED <<maVars, now>>

InitEvents ==
  /\ StartOn({"task-a"}) /\ registry = ShippedRegistry /\ NoDecomposition
  /\ \E task \in {t \in TaskFiles : t.error = NoneVal}, events \in EventMaps,
        role \in DOMAIN SessionRoles :
       ctl = [events |-> events, task |-> task, audit |-> <<>>, session |-> Session(role, 1),
              last |-> [command |-> "none", event |-> None, raise |-> "none",
                        task |-> task, session |-> Session(role, 1)]]

NextEvents ==
  \/ \E event \in EventNames : AutoProgress(event)
  \/ \E event \in EventNames : HubSubmit(event)

SpecEvents == InitEvents /\ [][NextEvents]_vars

\* ---- properties ------------------------------------------------------------
\* the checkpoint and the values of the run the last operation acted on
Ck == store[lastOp.tid]
Post == store[lastOp.tid].vals

\* the last operation resumed a suspended node, and the node returned
Resumed == lastOp.op \in {"done", "watch-resume"} /\ lastOp.raise = None
ResumedBuild == Resumed /\ lastOp.preNext = "build"
ResumedReview == Resumed /\ lastOp.preNext = "review"

\* the value handed to the review is a map whose decision is approve
Approves(v) == IsDict(v) /\ "decision" \in DOMAIN v /\ v.decision = "approve"

\* the build was resumed later than timeout_sec after the most recent plan
Late == lastOp.at - planned[lastOp.tid] > Post.timeout_sec

\* the error strings of a failed validation of the builder's value
InvalidErrors ==
  { "Builder output invalid: output must be a JSON object",
    "Builder output invalid: missing 'status' field",
    "Builder output invalid: missing 'summary' field",
    "Builder output invalid: missing 'status' field; missing 'summary' field" }

\* C1: every review resume whose value is not an approval raises retry_count
\* by exactly one; when the new count is within retry_budget the run loops
\* back to plan (and suspends in build) with final_status unset; when the new
\* count is retry_budget + 1 the run ends escalated with error
\* BUDGET_EXHAUSTED.
C1_RejectionRetriesOrEscalates ==
  (ResumedReview /\ ~Approves(lastOp.v)) =>
    /\ Post.retry_count = lastOp.preRetry + 1
    /\ Post.retry_count <= Post.retry_budget =>
         /\ Ck.next = "build"
         /\ lastOp.nodes = <<"review", "decide", "plan", "build">>
         /\ Post.final_status = None
    /\ Post.retry_count > Post.retry_budget =>
         /\ Post.retry_count = Post.retry_budget + 1
         /\ Ck.next = "END"
         /\ Post.error = "BUDGET_EXHAUSTED"
         /\ Post.final_status = "escalated"

\* C2: once a run's checkpoint holds a final_status, no operation executes a
\* node of that run any more: the operations that ran nodes found
\* final_status unset.
C2_TerminalRunsNoNode ==
  lastOp.nodes # <<>> => lastOp.preFinal = None

\* C3: a resume (ma done, or the watch loop's resume) of a run whose task
\* file says cancelled, or any other terminal status, executes no node and
\* leaves the checkpoint as it was.
C3_CancelledNotResumed ==
  lastOp.op \in {"done", "watch-resume"} =>
    (lastOp.preYaml \in {"cancelled", "approved", "failed", "escalated"}
       => lastOp.nodes = <<>>)

C5_EndHasFinalStatus ==
  /\ \A t \in TaskIds :
       store[t].next = "END" =>
         /\ store[t].vals.final_status \in {"approved", "failed", "escalated"}
         /\ store[t].vals.final_status = "approved" => store[t].vals.error = None
         /\ store[t].vals.final_status = "escalated" =>
              store[t].vals.error = "BUDGET_EXHAUSTED"
         /\ store[t].vals.final_status = "failed" =>
              store[t].vals.error \in InvalidErrors \cup {"TIMEOUT"}
  /\ (ResumedReview /\ Post.final_status = "escalated") =>
       Post.retry_count > Post.retry_budget

\* C5 witness: a rejection exhausted the budget and the run is at END.
C5_Witness ==
  /\ ResumedReview
  /\ Ck.next = "END"
  /\ Post.final_status = "escalated"
  /\ Post.error = "BUDGET_EXHAUSTED"

\* the last operation resumed a run suspended in build (the node may raise)
BuildResume == lastOp.op \in {"done", "watch-resume"} /\ lastOp.preNext = "build"

\* the builder's value fails the validation the specification describes
InvalidValue(v) == ~IsDict(v) \/ "status" \notin DOMAIN v \/ "summary" \notin DOMAIN v

\* the builder's value carries the error marker
IsErrorMarker(v) == IsDict(v) /\ "status" \in DOMAIN v /\ v.status = "error"

\* the build step ended the run as failed without running review
BuildFailed ==
  /\ Ck.next = "END"
  /\ Post.final_status = "failed"
  /\ lastOp.nodes = <<"build">>
  /\ lastOp.raise = None
  /\ Post.retry_count = lastOp.preRetry

\* C6 as stated: a build resumed with an invalid value ends the run failed
\* with the validation message as error, without review and without a retry.
C6_InvalidOutputFails ==
  (BuildResume /\ InvalidValue(lastOp.v)) =>
    (BuildFailed /\ Post.error \in InvalidErrors)

\* C6 amended: the same, for a build resumed within timeout_sec of the most
\* recent plan or with timeout_sec 0.
C6_InvalidOutputFailsInTime ==
  (BuildResume /\ InvalidValue(lastOp.v) /\ (Post.timeout_sec = 0 \/ ~Late)) =>
    (BuildFailed /\ Post.error \in InvalidErrors)

\* C6 witness: a value without a summary, handed over in time, failed the run.
C6_Witness ==
  /\ BuildResume
  /\ lastOp.v = BNoSummary
  /\ ~Late
  /\ BuildFailed
  /\ Post.error = "Builder output invalid: missing 'summary' field"

C8_ErrorMarkerFailsBuild ==
  (BuildResume /\ IsErrorMarker(lastOp.v) /\ (Post.timeout_sec = 0 \/ ~Late)) =>
    /\ BuildFailed
    /\ Post.error = Get(lastOp.v, "summary", "")
    /\ Post.builder_output # lastOp.v

\* C9: a build resumed in time with a map holding status and summary (not
\* the error marker) suspends in review, and sets neither final_status nor
\* error, whatever check_results holds.
C9_ValidOutputGoesToReview ==
  (BuildResume /\ ~InvalidValue(lastOp.v) /\ ~IsErrorMarker(lastOp.v)
     /\ (Post.timeout_sec = 0 \/ ~Late)) =>
    /\ lastOp.raise = None
    /\ Ck.next = "review"
    /\ lastOp.nodes = <<"build", "review">>
    /\ Post.final_status = lastOp.preFinal
    /\ Post.error = lastOp.preError

CliFailedFeedback(v) ==
  IF Get(v, "summary", "") = "CLI timed out" THEN "CLI failed: CLI timed out"
  ELSE "CLI failed"

\* C11: after review is resumed with the error marker {status: error,
\* summary: text}, the recorded reviewer_output holds decision reject and a
\* feedback saying the CLI failed with the marker's text; reviewer_output
\* holds a decision after every review.
C11_ReviewErrorMarkerRejects ==
  /\ (ResumedReview /\ IsErrorMarker(lastOp.v)) =>
       /\ "decision" \in DOMAIN Post.reviewer_output
       /\ Get(Post.reviewer_output, "decision", "") = "reject"
       /\ Get(Post.reviewer_output, "feedback", "") = CliFailedFeedback(lastOp.v)
  /\ ResumedReview => "decision" \in DOMAIN Post.reviewer_output

\* ---- role assignment -----------------------------------------------------
\* the last operation was a go whose plan assigned the roles (the thread
\* held no assignment before)
Assigned == lastOp.op = "go" /\ lastOp.raise = None /\ lastOp.preNext \in {"NONE", "plan"}

\* C12: in every state of every run, under every registry, defaults section
\* and pair of overrides, a run whose builder_id and reviewer_id are both
\* set has a reviewer_id different from its builder_id.
C12_ReviewerDiffersFromBuilder ==
  \A t \in TaskIds :
    LET v == store[t].vals
    IN (Truthy(v.builder_id) /\ Truthy(v.reviewer_id)) => v.reviewer_id # v.builder_id

\* C12 witness: plan assigned the roles under a defaults section that names
\* the same agent for both roles, with no override
C12_Witness ==
  /\ Assigned
  /\ registry.defaults.builder # "" /\ registry.defaults.reviewer = registry.defaults.builder
  /\ Post.builder_explicit = "" /\ Post.reviewer_explicit = ""
  /\ Post.builder_id = registry.defaults.builder
  /\ Truthy(Post.reviewer_id)

\* the last operation was a go given the same agent as --builder and as
\* --reviewer
SamePairGo ==
  /\ lastOp.op = "go"
  /\ Post.builder_explicit # ""
  /\ Post.reviewer_explicit = Post.builder_explicit

\* C13: a go whose explicit reviewer equals its explicit builder raises the
\* configuration error before any prompt is written: no inbox file and no
\* TASK.md exist, the thread is not suspended in build or review, the task
\* is marked failed and the lock is released, so that no task is active.
C13_SamePairIsRefused ==
  SamePairGo =>
    /\ lastOp.raise = "ValueError"
    /\ \A r \in Roles : inbox[r] = NoneVal
    /\ task_md = None
    /\ Ck.next \notin {"build", "review"}
    /\ Ck.marker = NoMarker
    /\ yaml[lastOp.tid] = "failed"
    /\ lock = None
    /\ detect_active_task = None

\* the last operation was a go on a thread that held no assignment: its
\* plan resolved both roles under the registry as it stands
FreshGo == lastOp.op = "go" /\ lastOp.preNext \in {"NONE", "plan"}

\* no agent of the registry has the implementation capability
NoEligibleBuilder == eligible(registry.agents, {"implementation"}, {}) = <<>>

\* no agent of the registry other than builder b has the review capability
NoEligibleReviewer(b) == eligible(registry.agents, {"review"}, {b}) = <<>>

\* C14: when the registry holds no agent eligible for a role (and neither an
\* override nor a usable default names one), plan fails with the
\* configuration error instead of assigning some other agent: for the
\* builder no agent has the implementation capability, for the reviewer no
\* agent other than the builder has the review capability.
C14_NoEligibleActorRaises ==
  FreshGo =>
    LET b == resolve_builder(registry.agents, Post.builder_explicit)
    IN /\ (Post.builder_explicit = "" /\ registry.defaults.builder = "" /\ NoEligibleBuilder)
            => lastOp.raise = "ValueError"
       /\ (b # "ValueError" /\ Post.reviewer_explicit = ""
             /\ registry.defaults.reviewer \in {"", b} /\ NoEligibleReviewer(b))
            => lastOp.raise = "ValueError"

\* C15: the builder_id and reviewer_id the first plan execution of a run
\* stored never change in a later step: every retry (and every other step)
\* keeps the same pair, also after the defaults or the registry were edited.
C15_AssignmentIsStable ==
  [][\A t \in TaskIds :
       (Truthy(store[t].vals.builder_id) /\ Truthy(store[t].vals.reviewer_id)) =>
         /\ store'[t].vals.builder_id = store[t].vals.builder_id
         /\ store'[t].vals.reviewer_id = store[t].vals.reviewer_id]_vars

\* C15 witness: a rejection sent the run back through plan under a registry
\* that would now assign another builder
C15_Witness ==
  /\ lastOp.op = "done" /\ lastOp.preNext = "review" /\ lastOp.raise = None
  /\ Ck.next = "build" /\ Post.retry_count >= 1
  /\ goes = 1
  /\ Truthy(Post.builder_id)
  /\ resolve_builder(registry.agents, Post.builder_explicit)
       \notin {"ValueError", Post.builder_id}

\* ---- conversation, suspension marker --------------------------------------
IsPrefix(a, b) == Len(a) <= Len(b) /\ SubSeq(b, 1, Len(a)) = a

\* C16: in every step the conversation of a run keeps the previous
\* conversation as a prefix (entries are only appended), while the other
\* fields are overwritten: the retry_count a go writes replaces the stored
\* one.
C16_ConversationAppendOnly ==
  [][\A t \in TaskIds :
       /\ IsPrefix(store[t].vals.conversation, store'[t].vals.conversation)
       /\ (goes' = goes + 1 /\ lastOp'.tid = t) => store'[t].vals.retry_count = 0]_vars

\* C16 witness: a rejection sent the run through decide and plan again, on
\* top of the entries of plan, build and review
C16_Witness ==
  /\ ResumedReview /\ Ck.next = "build"
  /\ Post.retry_count = 1
  /\ Len(Post.conversation) >= 5

\* C17: a thread suspended in build has the marker {role: builder, agent:
\* builder_id} and current_role builder; a thread suspended in review has
\* the marker {role: reviewer, agent: reviewer_id} and current_role
\* reviewer; the marker's role never differs from current_role.
C17_MarkerMatchesState ==
  \A t \in TaskIds :
    LET ck == store[t]
    IN /\ ck.next = "build" =>
            /\ ck.marker = [role |-> "builder", agent |-> ck.vals.builder_id]
            /\ ck.vals.current_role = "builder"
            /\ Truthy(ck.vals.builder_id)
       /\ ck.next = "review" =>
            /\ ck.marker = [role |-> "reviewer", agent |-> ck.vals.reviewer_id]
            /\ ck.vals.current_role = "reviewer"
            /\ Truthy(ck.vals.reviewer_id)
       /\ ck.marker # NoMarker => ck.marker.role = ck.vals.current_role

\* C17 witness: a run suspended in review after a retry, its builder's
\* second output accepted
C17_Witness ==
  /\ ResumedBuild /\ Ck.next = "review"
  /\ Post.retry_count = 1
  /\ Ck.marker.role = "reviewer"

\* ---- the outbox poller ---------------------------------------------------
\* C18: an outbox file whose text does not parse is treated as absent by
\* check_once: once examined it has not been returned and is not recorded
\* as seen, so that the next poll examines it again.
C18_PartialFileNotRecorded ==
  \A r \in Roles :
    (outbox[r] = Partial /\ polled[r].examined) =>
      /\ polled[r].returned = 0
      /\ ~known[r]

\* C19: an outbox file holding JSON that is not an object is never returned
\* by check_once and is not recorded as seen.
C19_NonDictNotReturned ==
  \A r \in Roles :
    (outbox[r] = NonDict /\ polled[r].examined) =>
      /\ polled[r].returned = 0
      /\ ~known[r]

C21_LateAnswerTimesOut ==
  ((ResumedBuild \/ ResumedReview) /\ Post.timeout_sec > 0 /\ Late) =>
    /\ Ck.next = "END"
    /\ Post.final_status = "failed"
    /\ Post.error = "TIMEOUT"

\* the calls of app.invoke on run t that have started and not yet returned
Racing(t) == {e \in inflight : e.tid = t}

\* C22: no two node executions of one run overlap: at no time have two
\* drivers (the watch loop and a separately invoked ma done) both started a
\* resume of the same run that has not yet returned.
C22_NoOverlappingNodes ==
  \A t \in TaskIds : Cardinality(Racing(t)) <= 1

\* C23: runs with distinct ids are independent: a step of run u leaves alone
\* everything that belongs to another run t that is active and suspended:
\* t's checkpoint, the lock t holds, and the prompts, TASK.md and actor
\* outputs of t in the workspace.
C23_RunsIndependent ==
  [][\A t, u \in DOMAIN store :
       (t # u /\ lock = t /\ store[t].next \in {"build", "review"} /\ store'[u] # store[u]) =>
         /\ store'[t] = store[t]
         /\ lock' = lock
         /\ inbox' = inbox /\ outbox' = outbox /\ task_md' = task_md]_vars

\* C24: a resume at build or review, whatever value is supplied, raises no
\* exception out of a node and leaves the run suspended at a later node or
\* terminal with final_status set; the driver never records the task as failed
\* while the persisted run is still suspended.
C24_ResumeNeverCrashes ==
  (lastOp.op \in {"done", "watch-resume"} /\ lastOp.preNext \in {"build", "review"}) =>
    /\ lastOp.raise = None
    /\ Ck.next \in {"build", "review", "END"}
    /\ Ck.next = "END" => Post.final_status # None
    /\ ~(yaml[lastOp.tid] = "failed" /\ Pending(Ck))

\* ---- decomposition ---------------------------------------------------------------
\* the list handed to topo_sort, and what topo_sort gave back
Input == decompose_result.sub_tasks
TopoDone == decompose_result # NoneVal /\ sorted_tasks # NoneVal

\* the dependency graph of a list: an edge from each sub-task to each of its deps
Edges(l) == UNION {{<<l[k].id, l[k].deps[j]>> : j \in DOMAIN l[k].deps} : k \in DOMAIN l}

RECURSIVE Closure(_)
Closure(R) ==
  LET N == {e[1] : e \in R} \cup {e[2] : e \in R}
      R2 == R \cup {e \in N \X N : \E m \in N : <<e[1], m>> \in R /\ <<m, e[2]>> \in R}
  IN IF R2 = R THEN R ELSE Closure(R2)

\* the id lies on a dependency cycle; the list has a cycle; the deps no sub-task has
OnCycle(l, i) == <<i, i>> \in Closure(Edges(l))
HasCycle(l) == \E i \in IdsOf(l) : OnCycle(l, i)
UnknownDeps(l) == {e[2] : e \in Edges(l)} \ IdsOf(l)

StatusOf(sr) == Get(sr, "status", "unknown")
Failing(sr) == StatusOf(sr) \notin {"approved", "completed"}
FailedResults == SelectSeq(prior_results, Failing)

RECURSIVE RetriesUpTo(_)
\* the sum of retry_count over the first k results
RetriesUpTo(k) ==
  IF k = 0 THEN 0 ELSE RetriesUpTo(k - 1) + Get(prior_results[k], "retry_count", 0)

\* the files any result names
ChangedFiles ==
  UNION {{sr.changed_files[j] : j \in DOMAIN sr.changed_files} :
           sr \in {prior_results[k] : k \in {i \in DOMAIN prior_results :
                                               "changed_files" \in DOMAIN prior_results[i]}}}

\* C29: aggregate_results reports total_sub_tasks = number of results, failed =
\* the ids, in input order, of exactly the results whose status is neither
\* approved nor completed, completed = total - |failed|, total_retries = the sum
\* of retry_count, all_changed_files = the union of the changed files without
\* duplicates, and final_status = failed iff failed is not empty, else approved.
C29_AggregateReports ==
  agg # NoneVal =>
    /\ agg.total_sub_tasks = Len(prior_results)
    /\ agg.failed = [k \in DOMAIN FailedResults |-> Get(FailedResults[k], "sub_id", "?")]
    /\ agg.completed = Len(prior_results) - Len(FailedResults)
    /\ agg.total_retries = RetriesUpTo(Len(prior_results))
    /\ {agg.all_changed_files[k] : k \in DOMAIN agg.all_changed_files} = ChangedFiles
    /\ Len(agg.all_changed_files) = Cardinality(ChangedFiles)
    /\ agg.final_status = IF FailedResults # <<>> THEN "failed" ELSE "approved"
    /\ agg.final_status \in {"failed", "approved"}

\* [a approved, b failed] gives failed, [b], completed 1; the files of both
\* results are reported once
C29_Witness ==
  /\ agg # NoneVal
  /\ prior_results = <<SubResult("a", "approved", <<"b.py", "a.py">>, 1),
                       SubResult("b", "failed", <<"c.py", "b.py", "c.py">>, 3)>>
  /\ agg.final_status = "failed" /\ agg.failed = <<"b">> /\ agg.completed = 1
  /\ agg.total_retries = 4 /\ agg.all_changed_files = <<"a.py", "b.py", "c.py">>

\* the runs of sub-tasks that are suspended in build or review
SuspendedSubRuns == {s \in DOMAIN store \cap SubRunIds : store[s].next \in {"build", "review"}}

\* C27: in decomposed mode sub-tasks execute one at a time: the run of a
\* sub-task is not started before the run of the previous one has ended, so at
\* no time are two sub-runs of one decomposition suspended, also when the watch
\* loop of a sub-task ends by interruption or by a resume error.
C27_OneSubRunAtATime == Cardinality(SuspendedSubRuns) <= 1

\* the sub-task of the k-th recorded result, its run, and whether one of its
\* dependencies is recorded with a status that is neither approved nor completed
ResultTask(k) == sorted_tasks.result[k]
ResultRun(k) == generate_sub_task_id("task-a", ResultTask(k).id)
DepFailed(k) ==
  \E j \in DOMAIN ResultTask(k).deps : \E i \in DOMAIN prior_results :
    /\ i < k /\ prior_results[i].sub_id = ResultTask(k).deps[j]
    /\ prior_results[i].status \notin {"approved", "completed"}

C30_NoRunIdReuse ==
  lastOp.op \in {"go", "sub-go"} => lastOp.preNext \notin {"plan", "build", "review"}

\* ---- damaged state, outbox delivery, lock ------------------------------------------
\* C31: a damaged persisted record is reported as an error that differs from
\* "not found": a command never answers that there is no active task while the
\* yaml of the task is damaged, and a command that meets a damaged checkpoint
\* raises and runs no node.
C31_CorruptIsNotAbsent ==
  /\ lastOp.raise \in NotFoundReports => lastOp.preYaml # "corrupt"
  /\ lastOp.preNext = "CORRUPT" => lastOp.raise = "DatabaseError" /\ lastOp.nodes = <<>>

\* C32: an actor output found in outbox/{role}.json is applied only to a
\* suspension of that role: the resume values the drivers took from the outbox
\* are builder outputs at a build suspension and reviewer outputs at a review
\* suspension, for every interleaving of the watch loop and ma done.
C32_OutputGoesToItsRole ==
  (lastOp.op \in {"done", "watch-resume"} /\ lastOp.nodes # <<>>) =>
    /\ lastOp.v \in OutboxInputs("builder") \ OutboxInputs("reviewer") => lastOp.preNext = "build"
    /\ lastOp.v \in OutboxInputs("reviewer") \ OutboxInputs("builder") => lastOp.preNext = "review"

\* C33: the value used to resume attempt k of a role was produced in response
\* to the prompt of attempt k, never to an earlier one, for every interleaving
\* of the orchestrator with the writes of the CLI agent threads.
C33_NoStaleOutput ==
  (lastOp.op = "watch-resume" /\ "attempt" \in DOMAIN lastOp.v) =>
    lastOp.v.attempt = lastOp.preRetry

\* C34: ma go starts a task only when no lock is held, and a refused ma go
\* changes neither the lock, nor the runtime files, nor a checkpoint; at most
\* one started task is active at a time, also when two ma go interleave.
C34_GoOnlyWithoutLock ==
  [][/\ (lastOp' # lastOp /\ lastOp'.op = "go" /\ lastOp'.raise = None) => lock = None
     /\ (lastOp' # lastOp /\ lastOp'.raise = "locked") =>
          /\ lock' = lock /\ store' = store
          /\ outbox' = outbox /\ inbox' = inbox /\ task_md' = task_md]_vars

\* ---- termination ----
\* the run of tid is over with a final status
Terminated(tid) ==
  store[tid].next = "END" /\ store[tid].vals.final_status \in {"approved", "failed", "escalated"}

\* C35: when every suspension is eventually resumed with some value, a started
\* run reaches a terminal state (approved, failed or escalated), and it is
\* suspended at build or review with at most retry_budget rejections behind it,
\* i.e. at most retry_budget + 1 times at each.
C35_RunTerminates ==
  /\ [](\A tid \in TaskIds : Pending(store[tid]) =>
          store[tid].vals.retry_count <= store[tid].vals.retry_budget)
  /\ \A tid \in TaskIds : (store[tid].next # "NONE") ~> Terminated(tid)

\* ---- request_changes ----
\* the step is a ma done that handed v to the review of tid
ReviewedWith(tid, v) ==
  /\ store'[tid] # store[tid]
  /\ lastOp'.op = "done" /\ lastOp'.tid = tid /\ lastOp'.v = v
  /\ store[tid].next = "review"

\* C36: a review value with decision request_changes behaves like reject:
\* retry_count grows by one and the run either goes back to the builder, its
\* conversation ending with a retry entry carrying the feedback, or ends
\* escalated when the budget is exceeded, as it would after a reject; it never
\* ends approved.
C36_RequestChangesIsReject ==
  [][\A tid \in TaskIds : ReviewedWith(tid, RChanges) =>
       LET reject == invoke_resume(store[tid], tid, RReject, now', Files).ck
           after == store'[tid]
           conv == after.vals.conversation
       IN /\ after.next = reject.next
          /\ after.vals.retry_count = store[tid].vals.retry_count + 1
          /\ after.vals.retry_count = reject.vals.retry_count
          /\ after.vals.final_status = reject.vals.final_status
          /\ after.vals.final_status # "approved"
          /\ IF store[tid].vals.retry_count + 1 > store[tid].vals.retry_budget
               THEN after.next = "END" /\ after.vals.final_status = "escalated"
               ELSE /\ after.next = "build"
                    /\ \E i \in DOMAIN conv :
                         conv[i] = [role |-> "orchestrator", action |-> "retry",
                                    feedback |-> RChanges.feedback]]_vars

\* ---- the lock of a single task ----
\* the driver sees in this step that the run of tid is over: ma done after its
\* resume, or the watch loop at the top of an iteration (a step of the loop
\* that leaves lock, yaml and runtime files alone is a Ctrl-C)
ObservesTerminal(tid) ==
  \/ /\ lastOp' # lastOp
     /\ lastOp'.op = "done" /\ lastOp'.tid = tid /\ lastOp'.raise = None
     /\ store'[tid].next = "END"
  \/ /\ watching = tid /\ watching' = None
     /\ ~Pending(store[tid])
     /\ <<lock, yaml, outbox, inbox, task_md>>' # <<lock, yaml, outbox, inbox, task_md>>

\* no inbox, outbox or TASK.md is left
RuntimeCleared == Files = clear_runtime(Files)

\* C37: when ma done or the watch loop observes that the run is over, the task
\* yaml gets the final_status, the lock is released, the runtime files are
\* cleared and the task is no longer detected as active; while a run that
\* was not cancelled is suspended, its task holds the lock.
C37_LockFollowsRun ==
  [][\A tid \in TaskIds :
       /\ ObservesTerminal(tid) =>
            /\ yaml'[tid] = store'[tid].vals.final_status
            /\ lock' = None
            /\ RuntimeCleared'
            /\ detect_active_task' # tid
       /\ (Pending(store'[tid]) /\ yaml'[tid] # "cancelled") => lock' = tid]_vars

\* ---- lockctl ----
\* the row of the path of the last command, in the table the command found
RowBefore == SelectLock(ctl.last.before, ctl.last.file_path)
\* that row after the command
RowAfter == SelectLock(ctl.locks, ctl.last.file_path)
\* the last command found a lock on its path that had not expired
LiveBefore == \E r \in RowBefore : ~(r.expires_at <= ctl.last.at)
\* ... and that lock belonged to the task of the command
OwnBefore == \E r \in RowBefore : ~(r.expires_at <= ctl.last.at) /\ r.owner_task = ctl.last.task_id

\* C38: a file_path has at most one row; acquire by another task against a live
\* lock is blocked and changes nothing; acquire by the owner of a live lock
\* renews it with lock_version + 1; acquire finding no lock or an expired one
\* (expires_at <= now) gives the lock to the caller; renew and release by a
\* task that does not own a live lock on the path fail and change nothing.
C38_LockctlOwnership ==
  /\ \A r1, r2 \in ctl.locks : r1.file_path = r2.file_path => r1 = r2
  /\ (ctl.last.command = "acquire" /\ LiveBefore /\ ~OwnBefore) =>
       ctl.last.status = "blocked" /\ ctl.locks = ctl.last.before
  /\ (ctl.last.command = "acquire" /\ OwnBefore) =>
       /\ ctl.last.status = "renewed_by_owner"
       /\ \E b \in RowBefore, a \in RowAfter :
            /\ a.owner_task = b.owner_task
            /\ a.lock_version = b.lock_version + 1
            /\ ctl.last.lock_version = a.lock_version
  /\ (ctl.last.command = "acquire" /\ ~LiveBefore) =>
       /\ ctl.last.status = "acquired"
       /\ \E a \in RowAfter : a.owner_task = ctl.last.task_id /\ a.lock_version = 1
  /\ (ctl.last.command \in {"renew", "release"} /\ ~OwnBefore) =>
       /\ ctl.last.status \notin {"renewed", "released"}
       /\ ctl.locks = ctl.last.before

\* a task takes over a path whose lock, held by another task, expires now
C38_Witness ==
  /\ ctl.last.command = "acquire" /\ ctl.last.status = "acquired"
  /\ \E r \in RowBefore : r.owner_task # ctl.last.task_id /\ r.expires_at = ctl.last.at

\* ---- mvp_ctl ----
\* C39: the state of a task file changes only along an edge of STATE_TRANSITIONS,
\* and never from DONE or CANCELLED; a rejected transition leaves the task
\* file and the audit log as they were; an applied one appends exactly one
\* audit record, with the old and the new state, and leaves an error in the
\* task file iff the new state is FAILED.
C39_TaskLifecycle ==
  LET old == ctl.last.task
      log == ctl.last.audit
  IN /\ ctl.task.state # old.state =>
          /\ old.state \in DOMAIN STATE_TRANSITIONS
          /\ ctl.task.state \in STATE_TRANSITIONS[old.state]
          /\ old.state \notin {"DONE", "CANCELLED"}
     /\ ctl.last.raise \notin {None, "none"} => ctl.task = old /\ ctl.audit = log
     /\ ctl.last.raise = None =>
          /\ ctl.task.state = ctl.last.to
          /\ Len(ctl.audit) = Len(log) + 1
          /\ SubSeq(ctl.audit, 1, Len(log)) = log
          /\ ctl.audit[Len(ctl.audit)].from = old.state
          /\ ctl.audit[Len(ctl.audit)].to = ctl.task.state
          /\ (ctl.task.error # NoneVal) <=> (ctl.task.state = "FAILED")

\* a task that had failed moves on and loses its error
C39_Witness ==
  /\ ctl.last.raise = None
  /\ ctl.last.task.state = "FAILED" /\ ctl.last.task.error # NoneVal
  /\ ctl.task.state = "RETRY" /\ ctl.task.error = NoneVal

\* ---- progress by events ----
\* C40: an event operation that raises leaves the state of the task file and
\* the current_role and current_agent of the session file as they were; one
\* that succeeds leaves the task in the `to` state of the event and the
\* session with the next_role of the event and the agent of that role.
C40_EventAllOrNothing ==
  /\ ctl.last.raise \notin {None, "none"} =>
       /\ ctl.task.state = ctl.last.task.state
       /\ ctl.session.current_role = ctl.last.session.current_role
       /\ ctl.session.current_agent = ctl.last.session.current_agent
  /\ ctl.last.raise = None =>
       /\ ctl.task.state = ctl.events[ctl.last.event].to
       /\ ctl.session.current_role = ctl.events[ctl.last.event].next_role
       /\ ctl.session.current_agent = ctl.session.roles[ctl.session.current_role]

====
